---- MODULE Spec2Model ----
(***************************************************************************)
(* A model of simple-redis: the RESP frame codec (BulkString and Array,    *)
(* src/resp), the command layer (src/cmd) and the in-memory store          *)
(* (src/backend).                                                          *)
(*                                                                         *)
(* Bytes are one-character strings, byte buffers are sequences of them.    *)
(* Rust's Option is a sequence of length 0 (None) or 1 (Some).  Indices    *)
(* into buffers are 0-based as in the source; At and Slice translate.      *)
(***************************************************************************)
EXTENDS Integers, Sequences, FiniteSets, TLC

VARIABLES
    sent,   \* codec: frames the peer has written to the stream (ghost)
    due,    \* codec: frames written and not yet decoded (ghost)
    junk,   \* codec: number of raw bytes the peer wrote outside any frame
    wire,   \* codec: bytes written by the peer and not yet read
    buf,    \* codec: the connection's read buffer (BytesMut)
    pre,    \* codec: the read buffer as it was when decode was last called
    out,    \* codec: what the last decode call returned
    map,    \* store: key -> frame (Backend.map)
    hmap,   \* store: key -> (field -> frame) (Backend.hmap)
    set,    \* store: key -> set of members (Backend.set)
    before, \* store: the three maps as they were before the last command
    req,    \* commands: the request bytes of the last command, if it had any
    cmd,    \* commands: the last command, as parsed or as constructed
    reply,  \* commands: the reply to the last command
    lastSet,  \* history: key -> the value of the last Set on it (ghost)
    lastHSet, \* history: key, field -> the value of the last HSet on it (ghost)
    sadded,   \* history: the <<key, member>> some Sadd has listed (ghost)
    input,    \* parsing: the request frame handed to the parser, if one was
    parsed,   \* parsing: how parsing it ended
    threads,  \* concurrency: each thread's place in the command it runs
    shared    \* concurrency: the keys lie in one shard of their DashMap

codecVars == <<sent, due, junk, wire, buf, pre, out>>
storeVars == <<map, hmap, set, before, req, cmd, reply, lastSet, lastHSet, sadded>>
parseVars == <<input, parsed>>
concVars == <<threads, shared>>
vars == <<codecVars, storeVars, parseVars, concVars>>

(***************************************************************************)
(* Bounds of the model.                                                    *)
(***************************************************************************)
MaxEnc == 17      \* bytes of encoded frames the peer writes
MaxPayload == 2   \* bytes in a BulkString payload
MaxElems == 2     \* elements of one Array
MaxFrames == 2    \* frames the peer writes back to back
MaxJunk == 4      \* raw bytes the peer writes when it writes no frame
MaxEntries == 2   \* scalars, hash fields, empty sets and set members in the store
MaxArgs == 2       \* fields of one HMGet, members of one Sadd
MaxPreload == 1     \* commands that have filled the store before a request is parsed
MaxThreads == 2     \* threads that run a command at the same time
MaxMembers == 3    \* members of one Sadd where only sets and what may disturb them are run

CR == "\r"
LF == "\n"
CRLF == <<CR, LF>>
PayloadBytes == {"a", CR, LF}
JunkBytes == {"$", "*", "1", "a", CR, LF}

None == << >>
Some(x) == <<x>>

(***************************************************************************)
(* Frames.                                                                 *)
(***************************************************************************)
BulkString(o) == [kind |-> "BulkString", val |-> o]
RespArray(o) == [kind |-> "Array", val |-> o]
Integer(n) == [kind |-> "Integer", val |-> n]
SimpleString(t) == [kind |-> "SimpleString", val |-> t]
RespNull == [kind |-> "Null"]

(***************************************************************************)
(* Buffers: 0-based access as in the source.                               *)
(***************************************************************************)
At(b, i) == b[i + 1]
Slice(b, from, to) == SubSeq(b, from + 1, to)
advance(b, n) == SubSeq(b, n + 1, Len(b))
starts_with(b, p) == Len(b) >= Len(p) /\ SubSeq(b, 1, Len(p)) = p

(***************************************************************************)
(* Decimal text of a usize (format!("{}", n)) and its parse.               *)
(***************************************************************************)
Digits == <<"0", "1", "2", "3", "4", "5", "6", "7", "8", "9">>
IsDigit(c) == \E d \in 1..10 : Digits[d] = c
DigitVal(c) == (CHOOSE d \in 1..10 : Digits[d] = c) - 1

RECURSIVE format_usize(_)
format_usize(n) ==
    IF n < 10 THEN <<Digits[n + 1]>>
    ELSE format_usize(n \div 10) \o <<Digits[(n % 10) + 1]>>

RECURSIVE digits_value(_, _)
digits_value(s, acc) ==
    IF s = << >> THEN acc
    ELSE digits_value(Tail(s), acc * 10 + DigitVal(Head(s)))

\* str::parse::<usize>: Some(n) for a non-empty run of digits, None otherwise.
parse_usize(s) ==
    IF s # << >> /\ \A i \in 1..Len(s) : IsDigit(s[i])
    THEN Some(digits_value(s, 0))
    ELSE None

(***************************************************************************)
(* Results of a decode or a probe.  Every result carries the buffer as the *)
(* call leaves it, so that a call that fails after consuming is visible.   *)
(***************************************************************************)
Ok(v, b) == [tag |-> "Ok", val |-> Some(v), buf |-> b]
NotComplete(b) == [tag |-> "NotComplete", val |-> None, buf |-> b]
Malformed(b) == [tag |-> "Malformed", val |-> None, buf |-> b]
\* `?` on a failed step: the error is returned, the buffer is as it is now.
Raise(r, b) == [tag |-> r.tag, val |-> None, buf |-> b]

CRLF_LEN == 2
NULL_ARRAY == <<"*", "-", "1", CR, LF>>
NULL_BULK_STRING == <<"$", "-", "1", CR, LF>>

(***************************************************************************)
(* Helpers of the resp module.                                             *)
(***************************************************************************)
\* The index of the first CR LF at or after index 1, None when there is none.
find_crlf(b) ==
    LET hits == {i \in 1..(Len(b) - 2) : At(b, i) = CR /\ At(b, i + 1) = LF}
    IN  IF hits = {} THEN None
        ELSE Some(CHOOSE i \in hits : \A j \in hits : i <= j)

\* The count header "<prefix><digits>\r\n": (end, len), end the index of
\* its CR.  Too short or no terminator yet: incomplete.  Another marker or
\* digits that are no usize (such as "-1"): malformed.
parse_length(b, prefix) ==
    IF Len(b) < 3 THEN NotComplete(b)
    ELSE IF ~starts_with(b, <<prefix>>) THEN Malformed(b)
    ELSE LET e == find_crlf(b) IN
         IF e = None THEN NotComplete(b)
         ELSE LET n == parse_usize(Slice(b, 1, e[1])) IN
              IF n = None THEN Malformed(b)
              ELSE Ok([end |-> e[1], len |-> n[1]], b)

\* The literal `expect` at the front of the buffer is consumed.
extract_fixed_data(b, expect) ==
    IF Len(b) < Len(expect) THEN NotComplete(b)
    ELSE IF ~starts_with(b, expect) THEN Malformed(b)
    ELSE Ok(TRUE, advance(b, Len(expect)))

\* TRUE, consuming it, when the buffer starts with the null sentinel.
check_null_bulkstring(b) ==
    IF starts_with(b, NULL_BULK_STRING)
    THEN Ok(TRUE, advance(b, Len(NULL_BULK_STRING)))
    ELSE Ok(FALSE, b)

(***************************************************************************)
(* BulkString (src/resp/bulk_string.rs).                                   *)
(***************************************************************************)
\* A variant that writes the absent string as the empty one.
BulkString_encode_conflating(o) ==
    IF o = None THEN <<"$", "0">> \o CRLF \o CRLF
    ELSE <<"$">> \o format_usize(Len(o[1])) \o CRLF \o o[1] \o CRLF

BulkString_encode(o) ==
    IF o = None THEN NULL_BULK_STRING
    ELSE <<"$">> \o format_usize(Len(o[1])) \o CRLF \o o[1] \o CRLF

\* A variant that leaves the payload's terminator in the buffer.
BulkString_decode_short(b) ==
    LET null == check_null_bulkstring(b) IN
    IF null.tag # "Ok" THEN Raise(null, null.buf)
    ELSE IF null.val[1] THEN Ok(BulkString(None), null.buf)
    ELSE LET p == parse_length(b, "$") IN
         IF p.tag # "Ok" THEN Raise(p, b)
         ELSE LET end == p.val[1].end
                  len == p.val[1].len
                  remained == advance(b, end + CRLF_LEN)
              IN  IF Len(remained) < len + CRLF_LEN THEN NotComplete(b)
                  ELSE Ok(BulkString(Some(Slice(remained, 0, len))),
                          advance(remained, len))

BulkString_decode(b) ==
    LET null == check_null_bulkstring(b) IN
    IF null.tag # "Ok" THEN Raise(null, null.buf)
    ELSE IF null.val[1] THEN Ok(BulkString(None), null.buf)
    ELSE LET p == parse_length(b, "$") IN
         IF p.tag # "Ok" THEN Raise(p, b)
         ELSE LET end == p.val[1].end
                  len == p.val[1].len
                  remained == advance(b, end + CRLF_LEN)
              IN  IF Len(remained) < len + CRLF_LEN THEN NotComplete(b)
                  ELSE LET data == Slice(remained, 0, len + CRLF_LEN)
                       IN  Ok(BulkString(Some(Slice(data, 0, len))),
                              advance(remained, len + CRLF_LEN))

BulkString_expect_length(b) ==
    LET p == parse_length(b, "$") IN
    IF p.tag # "Ok" THEN Raise(p, b)
    ELSE Ok(p.val[1].end + CRLF_LEN + p.val[1].len + CRLF_LEN, b)

(***************************************************************************)
(* RespArray (src/resp/array.rs) and the frame dispatch it recurses        *)
(* through.                                                                *)
(***************************************************************************)
RECURSIVE RespFrame_encode(_), encode_all(_)
RECURSIVE RespFrame_decode(_), RespFrame_expect_length(_)
RECURSIVE RespArray_decode(_), RespArray_expect_length(_)
RECURSIVE calc_elements(_, _, _), decode_elements(_, _, _)

\* The encodings of `frames`, concatenated.
encode_all(frames) ==
    IF frames = << >> THEN << >>
    ELSE RespFrame_encode(Head(frames)) \o encode_all(Tail(frames))

RespArray_encode(o) ==
    IF o = None THEN NULL_ARRAY
    ELSE <<"*">> \o format_usize(Len(o[1])) \o CRLF \o encode_all(o[1])

RespFrame_encode(f) ==
    IF f.kind = "BulkString" THEN BulkString_encode(f.val)
    ELSE RespArray_encode(f.val)

\* The probe of `n` more elements in `data`, `total` bytes probed so far.
calc_elements(data, n, total) ==
    IF n = 0 THEN Ok(total, data)
    ELSE LET l == RespFrame_expect_length(data) IN
         IF l.tag # "Ok" THEN Raise(l, data)
         ELSE IF l.val[1] > Len(data) THEN NotComplete(data)
         ELSE calc_elements(advance(data, l.val[1]), n - 1, total + l.val[1])

\* The bytes a whole array needs: its header and each element's probe.
calc_total_length(b, end, len, prefix) ==
    LET r == calc_elements(advance(b, end + CRLF_LEN), len, end + CRLF_LEN)
    IN  IF r.tag # "Ok" THEN Raise(r, b) ELSE Ok(r.val[1], b)

\* for _ in 0..len { frames.push(RespFrame::decode(buf)?) }
decode_elements(b, n, frames) ==
    IF n = 0 THEN Ok(frames, b)
    ELSE LET r == RespFrame_decode(b) IN
         IF r.tag # "Ok" THEN Raise(r, r.buf)
         ELSE decode_elements(r.buf, n - 1, Append(frames, r.val[1]))

\* A variant without the probe: the header is consumed, then the elements.
RespArray_decode_eager(b) ==
    IF starts_with(b, NULL_ARRAY)
    THEN LET x == extract_fixed_data(b, NULL_ARRAY) IN
         IF x.tag # "Ok" THEN Raise(x, x.buf) ELSE Ok(RespArray(None), x.buf)
    ELSE LET p == parse_length(b, "*") IN
         IF p.tag # "Ok" THEN Raise(p, b)
         ELSE LET r == decode_elements(advance(b, p.val[1].end + CRLF_LEN),
                                       p.val[1].len, << >>)
              IN  IF r.tag # "Ok" THEN Raise(r, r.buf)
                  ELSE Ok(RespArray(Some(r.val[1])), r.buf)

RespArray_decode(b) ==
    IF starts_with(b, NULL_ARRAY)
    THEN LET x == extract_fixed_data(b, NULL_ARRAY) IN
         IF x.tag # "Ok" THEN Raise(x, x.buf) ELSE Ok(RespArray(None), x.buf)
    ELSE LET p == parse_length(b, "*") IN
         IF p.tag # "Ok" THEN Raise(p, b)
         ELSE LET end == p.val[1].end
                  len == p.val[1].len
                  total_len == calc_total_length(b, end, len, "*")
              IN  IF total_len.tag # "Ok" THEN Raise(total_len, b)
                  ELSE IF Len(b) < total_len.val[1] THEN NotComplete(b)
                  ELSE LET r == decode_elements(advance(b, end + CRLF_LEN), len, << >>)
                       IN  IF r.tag # "Ok" THEN Raise(r, r.buf)
                           ELSE Ok(RespArray(Some(r.val[1])), r.buf)

RespArray_expect_length(b) ==
    IF starts_with(b, NULL_ARRAY) THEN Ok(5, b)
    ELSE LET p == parse_length(b, "*") IN
         IF p.tag # "Ok" THEN Raise(p, b)
         ELSE calc_total_length(b, p.val[1].end, p.val[1].len, "*")

\* RespFrame::decode: the frame kind is chosen by the marker byte.
RespFrame_decode(b) ==
    IF b = << >> THEN NotComplete(b)
    ELSE IF At(b, 0) = "$" THEN BulkString_decode(b)
    ELSE IF At(b, 0) = "*" THEN RespArray_decode(b)
    ELSE Malformed(b)

RespFrame_expect_length(b) ==
    IF b = << >> THEN NotComplete(b)
    ELSE IF At(b, 0) = "$" THEN BulkString_expect_length(b)
    ELSE IF At(b, 0) = "*" THEN RespArray_expect_length(b)
    ELSE Malformed(b)

(***************************************************************************)
(* The frames and byte streams the peer writes.                            *)
(***************************************************************************)
RECURSIVE Payloads(_), Frames(_), FrameSeqs(_, _)

\* The byte strings of at most n bytes.
Payloads(n) ==
    IF n = 0 THEN {<< >>}
    ELSE Payloads(n - 1)
         \cup {Append(p, c) : p \in Payloads(n - 1), c \in PayloadBytes}

\* The frames whose encoding has at most m bytes.
Frames(m) ==
    IF m < 4 THEN {}
    ELSE {f \in {BulkString(None), RespArray(None)} : m >= 5}
         \cup {BulkString(Some(p)) : p \in {q \in Payloads(MaxPayload) : Len(q) + 6 <= m}}
         \cup {RespArray(Some(s)) : s \in FrameSeqs(m - 4, MaxElems)}

\* The sequences of at most k frames whose encodings have at most m bytes.
FrameSeqs(m, k) ==
    IF k = 0 THEN {<< >>}
    ELSE {<< >>}
         \cup UNION {{<<f>> \o s : s \in FrameSeqs(m - Len(RespFrame_encode(f)), k - 1)}
                     : f \in Frames(m)}

(***************************************************************************)
(* The codec on one connection: the peer writes frames (or raw bytes) to   *)
(* the stream, the reader appends what has arrived to its buffer and calls *)
(* decode on it.                                                           *)
(***************************************************************************)
NoCall == [op |-> "none", tag |-> "none", val |-> None, want |-> None]

Called(op, r) ==
    [op |-> op, tag |-> r.tag, val |-> r.val,
     want |-> IF due = << >> THEN None ELSE Some(Head(due))]

NoCommand == [name |-> "none"]
NoReply == [kind |-> "none"]
EmptyMap == << >>
NoFrame == [kind |-> "none"]
NotParsed == [tag |-> "none"]
Threads == 1..MaxThreads
Idle == [pc |-> "idle"]

\* A connection on which nothing was written yet, and Backend::new().
Init ==
    /\ sent = << >>
    /\ due = << >>
    /\ junk = 0
    /\ wire = << >>
    /\ buf = << >>
    /\ pre = << >>
    /\ out = NoCall
    /\ map = EmptyMap
    /\ hmap = EmptyMap
    /\ set = EmptyMap
    /\ before = [map |-> EmptyMap, hmap |-> EmptyMap, set |-> EmptyMap]
    /\ req = << >>
    /\ cmd = NoCommand
    /\ reply = NoReply
    /\ lastSet = EmptyMap
    /\ lastHSet = EmptyMap
    /\ sadded = {}
    /\ input = NoFrame
    /\ parsed = NotParsed
    /\ threads = [t \in Threads |-> Idle]
    /\ shared = FALSE

\* Every frame the peer may write, with its encoding.
AllFrames == {[frame |-> f, bytes |-> RespFrame_encode(f)] : f \in Frames(MaxEnc)}

\* The peer writes the encoding of frame v, before the reader has read.
Send ==
    /\ junk = 0
    /\ Len(sent) < MaxFrames
    /\ buf = << >> /\ due = sent /\ wire = encode_all(sent)
    /\ \E v \in AllFrames :
          /\ Len(wire) + Len(v.bytes) <= MaxEnc
          /\ sent' = Append(sent, v.frame)
          /\ due' = Append(due, v.frame)
          /\ wire' = wire \o RespFrame_encode(v.frame)
    /\ UNCHANGED <<junk, buf, pre, out, storeVars, parseVars, concVars>>

\* The peer writes one raw byte instead of frames.
SendRaw ==
    /\ sent = << >>
    /\ junk < MaxJunk
    /\ buf = << >> /\ Len(wire) = junk
    /\ \E c \in JunkBytes : wire' = Append(wire, c)
    /\ junk' = junk + 1
    /\ UNCHANGED <<sent, due, buf, pre, out, storeVars, parseVars, concVars>>

\* The reader appends the next n bytes of the stream to its buffer.
Read ==
    /\ \E n \in 1..Len(wire) :
          /\ buf' = buf \o SubSeq(wire, 1, n)
          /\ wire' = SubSeq(wire, n + 1, Len(wire))
    /\ pre' = << >>
    /\ out' = NoCall
    /\ UNCHANGED <<sent, due, junk, storeVars, parseVars, concVars>>

\* The reader calls `decode` on its buffer; r is what the call returns.
Decode(op, r) ==
    /\ pre' = buf
    /\ buf' = r.buf
    /\ out' = Called(op, r)
    /\ due' = IF r.tag = "Ok" /\ due # << >> THEN Tail(due) ELSE due
    /\ UNCHANGED <<sent, junk, wire, storeVars, parseVars, concVars>>

DecodeBulkString == Decode("BulkString", BulkString_decode(buf))

DecodeArray == Decode("Array", RespArray_decode(buf))

NextCodec ==
    \/ Send
    \/ SendRaw
    \/ Read
    \/ DecodeBulkString
    \/ DecodeArray

SpecCodec == Init /\ [][NextCodec]_vars

(***************************************************************************)
(* Properties of the codec, checked under SpecCodec.                       *)
(***************************************************************************)
\* The call decoded the frame kind the peer wrote at the front of the stream.
RightDecoder == out.want # None /\ out.op = out.want[1].kind

IsPrefix(p, e) == Len(p) <= Len(e) /\ SubSeq(e, 1, Len(p)) = p

\* C1: whenever BulkString or Array decode returns NotComplete, whatever the
\* buffer held, the buffer is what it was before the call.
C1_AllOrNothing == out.tag = "NotComplete" => buf = pre

\* C1 witness: Array decode returned NotComplete on a buffer that holds the
\* header of an array nested in an array and goes on after it.
C1_Witness ==
    /\ out.op = "Array" /\ out.tag = "NotComplete"
    /\ starts_with(pre, <<"*", "1", CR, LF, "*", "1", CR, LF, "$">>)
    /\ buf = pre

\* C2: decode of a buffer that holds exactly encode(v) returns v and leaves
\* the buffer empty, for every frame v of BulkStrings and Arrays.
C2_RoundTrip ==
    (junk = 0 /\ RightDecoder /\ pre = RespFrame_encode(out.want[1]))
        => (out.tag = "Ok" /\ out.val = out.want /\ buf = << >>)

\* C3: decode of a buffer that holds only e[0..i], 0 < i < len(e), of a valid
\* encoding e returns NotComplete and leaves the buffer unchanged; decode of
\* the buffer once the rest was appended returns what decode of e returns.
C3_IncrementalDecode ==
    (junk = 0 /\ RightDecoder)
        => LET e == RespFrame_encode(out.want[1])
               whole == IF out.op = "Array" THEN RespArray_decode(e)
                        ELSE BulkString_decode(e)
           IN  /\ (pre # << >> /\ pre # e /\ IsPrefix(pre, e))
                    => (out.tag = "NotComplete" /\ buf = pre)
               /\ pre = e
                    => (out.tag = whole.tag /\ out.val = whole.val /\ buf = whole.buf)

\* C4: a decode that succeeds on e ++ rest, e the encoding of the frame at
\* the front of the stream, returns that frame, removes exactly e and leaves
\* rest; the frames of a stream come out in the order they were written.
C4_ConsumesOneFrame ==
    junk = 0 =>
        /\ buf \o wire = encode_all(due)
        /\ out.tag = "Ok" =>
              /\ out.val = out.want /\ out.want # None
              /\ pre = RespFrame_encode(out.val[1]) \o buf
              /\ \E n \in 1..Len(sent) : sent[n] = out.val[1] /\ due = SubSeq(sent, n + 1, Len(sent))

\* C4 witness: the first of two frames, an Array with elements, was decoded
\* out of a buffer that also holds bytes of the second frame.
C4_Witness ==
    /\ junk = 0 /\ out.tag = "Ok" /\ out.op = "Array"
    /\ out.val[1].val # None /\ out.val[1].val[1] # << >>
    /\ Len(sent) = 2 /\ Len(due) = 1 /\ buf # << >>

\* C5: an absent BulkString is written as $-1 CR LF and an absent Array as
\* *-1 CR LF, each is decoded back to the absent value, and neither the
\* bytes nor the decoded value of an absent one are those of an empty one.
C5_NullIsNotEmpty ==
    junk = 0 =>
        /\ (due = sent /\ sent # << >>) =>
              LET stream == buf \o wire IN
              /\ sent[1] = BulkString(None) <=> starts_with(stream, NULL_BULK_STRING)
              /\ sent[1] = RespArray(None) <=> starts_with(stream, NULL_ARRAY)
              /\ sent[1] = BulkString(Some(<< >>)) <=> starts_with(stream, <<"$", "0", CR, LF, CR, LF>>)
              /\ sent[1] = RespArray(Some(<< >>)) <=> starts_with(stream, <<"*", "0", CR, LF>>)
        /\ (RightDecoder /\ IsPrefix(RespFrame_encode(out.want[1]), pre)
              /\ out.want[1].val \in {None, Some(<< >>)})
              => (out.tag = "Ok" /\ out.val = out.want)

\* C5 witness: an absent BulkString and an absent Array were written and
\* both were decoded.
C5_Witness ==
    /\ sent = <<BulkString(None), RespArray(None)>>
    /\ due = << >>
    /\ out.tag = "Ok" /\ out.val = Some(RespArray(None))

(***************************************************************************)
(* Strings.  A String is the sequence of its bytes; the bytes the model    *)
(* uses are ASCII except NotUtf8, which stands for a byte no UTF-8 text    *)
(* holds.                                                                  *)
(***************************************************************************)
NotUtf8 == "0xff"

\* Some(the String) when the bytes are UTF-8, None otherwise.
from_utf8(bytes) ==
    IF \E i \in 1..Len(bytes) : bytes[i] = NotUtf8 THEN None ELSE Some(bytes)

\* The bytes of the model in ascending byte order.
ByteOrder ==
    <<LF, CR, "$", "*", "-", "0", "1", "2", "3", "4", "5", "6", "7", "8", "9",
      "A", "B", "C", "D", "E", "F", "G", "H", "I", "J", "K", "L", "M", "N",
      "O", "P", "Q", "R", "S", "T", "U", "V", "W", "X", "Y", "Z",
      "a", "b", "c", "d", "e", "f", "g", "h", "i", "j", "k", "l", "m", "n",
      "o", "p", "q", "r", "s", "t", "u", "v", "w", "x", "y", "z", NotUtf8>>
ByteRank(c) == CHOOSE i \in 1..Len(ByteOrder) : ByteOrder[i] = c

\* a < b in the order of String::cmp: bytewise, a prefix first.
RECURSIVE str_lt(_, _)
str_lt(a, b) ==
    IF b = << >> THEN FALSE
    ELSE IF a = << >> THEN TRUE
    ELSE IF Head(a) # Head(b) THEN ByteRank(Head(a)) < ByteRank(Head(b))
    ELSE str_lt(Tail(a), Tail(b))

(***************************************************************************)
(* The store (src/backend/mod.rs).  A DashMap is a function on the keys it *)
(* holds, a DashSet a set.                                                 *)
(***************************************************************************)
Lookup(m, k) == IF k \in DOMAIN m THEN Some(m[k]) ELSE None
Insert(m, k, v) == [x \in DOMAIN m \cup {k} |-> IF x = k THEN v ELSE m[x]]
\* entry(k).or_default()
\* A variant that puts the default in place of what the key holds.
OrDefault_replacing(m, k, default) == Insert(m, k, default)

OrDefault(m, k, default) == IF k \in DOMAIN m THEN m ELSE Insert(m, k, default)

Backend_get(m, key) == Lookup(m, key)

\* A variant that keeps the value a key already has.
Backend_set_keep(m, key, value) ==
    IF key \in DOMAIN m THEN m ELSE Insert(m, key, value)

Backend_set(m, key, value) == Insert(m, key, value)

\* A variant that reads the field of any hash that has it.
Backend_hget_anykey(h, key, field) ==
    IF \E k \in DOMAIN h : field \in DOMAIN h[k]
    THEN Some(h[CHOOSE k \in DOMAIN h : field \in DOMAIN h[k]][field])
    ELSE None

Backend_hget(h, key, field) ==
    IF key \in DOMAIN h THEN Lookup(h[key], field) ELSE None

\* A variant that leaves missing fields out of the result.
RECURSIVE Backend_hmget_skipping(_, _, _)
Backend_hmget_skipping(h, key, fields) ==
    IF fields = << >> THEN << >>
    ELSE LET v == IF key \in DOMAIN h THEN Lookup(h[key], Head(fields)) ELSE None
         IN  (IF v = None THEN << >> ELSE <<v>>)
                 \o Backend_hmget_skipping(h, key, Tail(fields))

\* One Option<RespFrame> per requested field, in the order requested.
RECURSIVE Backend_hmget(_, _, _)
Backend_hmget(h, key, fields) ==
    IF fields = << >> THEN << >>
    ELSE <<IF key \in DOMAIN h THEN Lookup(h[key], Head(fields)) ELSE None>>
             \o Backend_hmget(h, key, Tail(fields))

\* The hash map after hset; hset itself returns nothing.
Backend_hset(h, key, field, value) ==
    LET h1 == OrDefault(h, key, EmptyMap)
    IN  Insert(h1, key, Insert(h1[key], field, value))

Backend_hgetall(h, key) == Lookup(h, key)

\* The set map after sadd and the count sadd returns.
RECURSIVE sadd_each(_, _, _), sadd_each_counting_all(_, _, _)

\* A variant that counts every member listed, new to the set or not.
sadd_each_counting_all(members, have, count) ==
    IF members = << >> THEN [members |-> have, count |-> count]
    ELSE sadd_each_counting_all(Tail(members), have \cup {Head(members)}, count + 1)

sadd_each(members, have, count) ==
    IF members = << >> THEN [members |-> have, count |-> count]
    ELSE sadd_each(Tail(members), have \cup {Head(members)},
                   IF Head(members) \in have THEN count ELSE count + 1)

Backend_sadd(s, key, members) ==
    LET s1 == OrDefault(s, key, {})
        r == sadd_each(members, s1[key], 0)
    IN  [set |-> Insert(s1, key, r.members), ret |-> r.count]

\* A variant that finds the member in the set of any key.
Backend_sismember_anykey(s, key, member) ==
    IF \E k \in DOMAIN s : member \in s[k] THEN 1 ELSE 0

Backend_sismember(s, key, member) ==
    IF key \in DOMAIN s /\ member \in s[key] THEN 1 ELSE 0

(***************************************************************************)
(* Execution of the commands (src/cmd).  A command is a record of its      *)
(* fields with its name; the backend is the record of the three maps.  An  *)
(* executor gives the reply and the backend as the command leaves it.      *)
(***************************************************************************)
RESP_OK == SimpleString(<<"O", "K">>)

Done(B, r) == [backend |-> B, reply |-> r]

Get_execute(B, c) ==
    LET v == Backend_get(B.map, c.key)
    IN  Done(B, IF v = None THEN RespNull ELSE v[1])

Set_execute(B, c) ==
    Done([B EXCEPT !.map = Backend_set(B.map, c.key, c.value)], RESP_OK)

HGet_execute(B, c) ==
    LET v == Backend_hget(B.hmap, c.key, c.field)
    IN  Done(B, IF v = None THEN RespNull ELSE v[1])

HMGet_execute(B, c) ==
    LET data == Backend_hmget(B.hmap, c.key, c.fields)
        ret == [i \in 1..Len(data) |->
                   IF data[i] = None THEN BulkString(None) ELSE data[i][1]]
    IN  Done(B, RespArray(Some(ret)))

\* data.sort_by(|a, b| a.0.cmp(&b.0)), by insertion.
RECURSIVE sort_insert(_, _), sort_by_key(_)
sort_insert(sorted, e) ==
    IF sorted = << >> THEN <<e>>
    ELSE IF str_lt(e[1], Head(sorted)[1]) THEN <<e>> \o sorted
    ELSE <<Head(sorted)>> \o sort_insert(Tail(sorted), e)

\* A variant that leaves the entries in the order the hash yielded them.
sort_by_key_unsorted(data) == data

sort_by_key(data) ==
    IF data = << >> THEN << >>
    ELSE sort_insert(sort_by_key(SubSeq(data, 1, Len(data) - 1)), data[Len(data)])

\* vec![BulkString::from(k).into(), v] for each (k, v), concatenated.
RECURSIVE flat_map(_)
flat_map(data) ==
    IF data = << >> THEN << >>
    ELSE <<BulkString(Some(Head(data)[1])), Head(data)[2]>> \o flat_map(Tail(data))

\* A variant that answers a missing key with an empty array.
HGetAll_execute_empty(B, c, order) ==
    IF c.key \in DOMAIN B.hmap
    THEN LET h == B.hmap[c.key]
             data == [i \in 1..Len(order) |-> <<order[i], h[order[i]]>>]
         IN  Done(B, RespArray(Some(flat_map(IF c.sort THEN sort_by_key(data) ELSE data))))
    ELSE Done(B, RespArray(Some(<< >>)))

\* `order` is the order in which the hash's iterator yields its fields.
HGetAll_execute(B, c, order) ==
    IF c.key \in DOMAIN B.hmap
    THEN LET h == B.hmap[c.key]
             data == [i \in 1..Len(order) |-> <<order[i], h[order[i]]>>]
         IN  Done(B, RespArray(Some(flat_map(IF c.sort THEN sort_by_key(data) ELSE data))))
    ELSE Done(B, RespArray(None))

\* RespFrame::Integer of what Backend::hset returns, which is nothing: the
\* frame holds no i64.
HSet_execute(B, c) ==
    Done([B EXCEPT !.hmap = Backend_hset(B.hmap, c.key, c.field, c.value)],
         [kind |-> "Integer", unit |-> TRUE])

\* A variant that gives the key to the set alone: its scalar entry and its
\* hash are removed.
Sadd_execute_typed(B, c) ==
    LET r == Backend_sadd(B.set, c.key, c.members)
    IN  Done([map |-> [k \in DOMAIN B.map \ {c.key} |-> B.map[k]],
              hmap |-> [k \in DOMAIN B.hmap \ {c.key} |-> B.hmap[k]],
              set |-> r.set], Integer(r.ret))

Sadd_execute(B, c) ==
    LET r == Backend_sadd(B.set, c.key, c.members)
    IN  Done([B EXCEPT !.set = r.set], Integer(r.ret))

\* A variant that looks the key up with entry().or_default(), as sadd does.
Sismember_execute_creating(B, c) ==
    Done([B EXCEPT !.set = OrDefault(B.set, c.key, {})],
         Integer(Backend_sismember(B.set, c.key, c.member)))

Sismember_execute(B, c) ==
    Done(B, Integer(Backend_sismember(B.set, c.key, c.member)))

Echo_execute(B, c) == Done(B, BulkString(Some(c.message)))

\* A variant that empties the store.
Unrecognized_execute_flush(B, c) ==
    Done([map |-> EmptyMap, hmap |-> EmptyMap, set |-> EmptyMap], RESP_OK)

Unrecognized_execute(B, c) == Done(B, RESP_OK)

\* enum_dispatch: the executor of the command's variant.
Command_execute(B, c, order) ==
    CASE c.name = "get" -> Get_execute(B, c)
      [] c.name = "set" -> Set_execute(B, c)
      [] c.name = "hget" -> HGet_execute(B, c)
      [] c.name = "hset" -> HSet_execute(B, c)
      [] c.name = "hmget" -> HMGet_execute(B, c)
      [] c.name = "hgetall" -> HGetAll_execute(B, c, order)
      [] c.name = "echo" -> Echo_execute(B, c)
      [] c.name = "sadd" -> Sadd_execute(B, c)
      [] c.name = "sismember" -> Sismember_execute(B, c)
      [] c.name = "unrecognized" -> Unrecognized_execute(B, c)

(***************************************************************************)
(* Parsing a request into a command (TryFrom<RespArray>, src/cmd).  The    *)
(* result is Parsed(command), a CommandError, or Panic where the source    *)
(* aborts (an index out of range, `expect` on None).                       *)
(***************************************************************************)
Parsed(c) == [tag |-> "Ok", val |-> Some(c)]
Failed(e) == [tag |-> e, val |-> None]

UpperCase == <<"A", "B", "C", "D", "E", "F", "G", "H", "I", "J", "K", "L", "M",
               "N", "O", "P", "Q", "R", "S", "T", "U", "V", "W", "X", "Y", "Z">>
LowerCase == <<"a", "b", "c", "d", "e", "f", "g", "h", "i", "j", "k", "l", "m",
               "n", "o", "p", "q", "r", "s", "t", "u", "v", "w", "x", "y", "z">>
to_ascii_lowercase(bytes) ==
    [i \in 1..Len(bytes) |->
        IF \E j \in 1..26 : UpperCase[j] = bytes[i]
        THEN LowerCase[CHOOSE j \in 1..26 : UpperCase[j] = bytes[i]]
        ELSE bytes[i]]

\* BulkString::as_ref: the bytes, none for the absent string.
as_ref(o) == IF o = None THEN << >> ELSE o[1]

\* The first of names[i..] that value does not carry at its place, if any.
RECURSIVE validate_names(_, _, _)
validate_names(value, names, i) ==
    IF i > Len(names) THEN Parsed(TRUE)
    ELSE IF i > Len(value) THEN Failed("Panic")
    ELSE IF value[i].kind # "BulkString" THEN Failed("InvalidCommand")
    ELSE IF to_ascii_lowercase(as_ref(value[i].val)) # names[i] THEN Failed("InvalidCommand")
    ELSE validate_names(value, names, i + 1)

\* A variant that lets a request carry more arguments than the command takes.
validate_command_at_least(array, names, n_args) ==
    IF array.val = None THEN Failed("InvalidCommand")
    ELSE LET value == array.val[1] IN
         IF n_args # None /\ Len(value) < n_args[1] + Len(names)
         THEN Failed("InvalidArgument")
         ELSE validate_names(value, names, 1)

\* n_args is Some(n) for a command of exactly n arguments, None otherwise.
validate_command(array, names, n_args) ==
    IF array.val = None THEN Failed("InvalidCommand")
    ELSE LET value == array.val[1] IN
         IF n_args # None /\ Len(value) # n_args[1] + Len(names)
         THEN Failed("InvalidArgument")
         ELSE validate_names(value, names, 1)

extract_args(array, start) ==
    IF array.val = None THEN Failed("InvalidCommand")
    ELSE Parsed(SubSeq(array.val[1], start + 1, Len(array.val[1])))

\* String::from_utf8(x.0.expect(..))? for each of `bulks` in turn: the
\* Strings, or how the first that fails does.
RECURSIVE strings_of(_)
strings_of(bulks) ==
    IF bulks = << >> THEN Parsed(<< >>)
    ELSE IF Head(bulks).val = None THEN Failed("Panic")
    ELSE IF from_utf8(Head(bulks).val[1]) = None THEN Failed("Utf8Error")
    ELSE LET rest == strings_of(Tail(bulks)) IN
         IF rest.tag # "Ok" THEN rest
         ELSE Parsed(<<from_utf8(Head(bulks).val[1])[1]>> \o rest.val[1])

IsBulk(args, i) == i <= Len(args) /\ args[i].kind = "BulkString"

\* A command of exactly Len(fields) arguments, each a BulkString read as a
\* String into the field of that name.
parse_fixed(array, name, text, fields) ==
    LET ok == validate_command(array, <<text>>, Some(Len(fields))) IN
    IF ok.tag # "Ok" THEN ok
    ELSE LET args == extract_args(array, 1) IN
         IF args.tag # "Ok" THEN args
         ELSE IF \E i \in 1..Len(fields) : ~IsBulk(args.val[1], i)
         THEN Failed("InvalidArgument")
         ELSE LET strs == strings_of(SubSeq(args.val[1], 1, Len(fields))) IN
              IF strs.tag # "Ok" THEN strs
              ELSE Parsed([f \in {"name"} \cup {fields[i] : i \in 1..Len(fields)} |->
                              IF f = "name" THEN name
                              ELSE strs.val[1][CHOOSE i \in 1..Len(fields) : fields[i] = f]])

\* A command of a key and then any number of BulkStrings, read as Strings.
parse_list(array, name, text, field) ==
    LET ok == validate_command(array, <<text>>, None) IN
    IF ok.tag # "Ok" THEN ok
    ELSE LET args == extract_args(array, 1) IN
         IF args.tag # "Ok" THEN args
         ELSE IF ~IsBulk(args.val[1], 1) THEN Failed("InvalidArgument")
         ELSE LET key == strings_of(<<args.val[1][1]>>) IN
              IF key.tag # "Ok" THEN key
              ELSE LET rest == Tail(args.val[1])
                       bad == {i \in 1..Len(rest) :
                                  \/ rest[i].kind # "BulkString"
                                  \/ strings_of(<<rest[i]>>).tag # "Ok"}
                       first == CHOOSE i \in bad : \A j \in bad : i <= j
                   IN  IF bad # {}
                       THEN IF rest[first].kind # "BulkString" THEN Failed("InvalidArgument")
                            ELSE strings_of(<<rest[first]>>)
                       ELSE Parsed([f \in {"name", "key", field} |->
                                       IF f = "name" THEN name
                                       ELSE IF f = "key" THEN key.val[1][1]
                                       ELSE strings_of(rest).val[1]])

\* A command of a key and a field, both BulkStrings, and a value of any kind.
parse_with_value(array, name, text, fields) ==
    LET ok == validate_command(array, <<text>>, Some(Len(fields) + 1)) IN
    IF ok.tag # "Ok" THEN ok
    ELSE LET args == extract_args(array, 1) IN
         IF args.tag # "Ok" THEN args
         ELSE IF \E i \in 1..Len(fields) : ~IsBulk(args.val[1], i)
         THEN Failed("InvalidArgument")
         ELSE LET strs == strings_of(SubSeq(args.val[1], 1, Len(fields))) IN
              IF strs.tag # "Ok" THEN strs
              ELSE Parsed([f \in {"name", "value"} \cup {fields[i] : i \in 1..Len(fields)} |->
                              IF f = "name" THEN name
                              ELSE IF f = "value" THEN args.val[1][Len(fields) + 1]
                              ELSE strs.val[1][CHOOSE i \in 1..Len(fields) : fields[i] = f]])

GET == <<"g", "e", "t">>
SET == <<"s", "e", "t">>
HGET == <<"h", "g", "e", "t">>
HSET == <<"h", "s", "e", "t">>
HMGET == <<"h", "m", "g", "e", "t">>
HGETALL == <<"h", "g", "e", "t", "a", "l", "l">>
ECHO == <<"e", "c", "h", "o">>
SADD == <<"s", "a", "d", "d">>
SISMEMBER == <<"s", "i", "s", "m", "e", "m", "b", "e", "r">>

Get_try_from(array) == parse_fixed(array, "get", GET, <<"key">>)
Set_try_from(array) == parse_with_value(array, "set", SET, <<"key">>)
HGet_try_from(array) == parse_fixed(array, "hget", HGET, <<"key", "field">>)
HSet_try_from(array) == parse_with_value(array, "hset", HSET, <<"key", "field">>)
HMGet_try_from(array) == parse_list(array, "hmget", HMGET, "fields")
HGetAll_try_from(array) ==
    LET r == parse_fixed(array, "hgetall", HGETALL, <<"key">>) IN
    IF r.tag # "Ok" THEN r
    ELSE Parsed([name |-> "hgetall", key |-> r.val[1].key, sort |-> FALSE])
Echo_try_from(array) == parse_fixed(array, "echo", ECHO, <<"message">>)
Sadd_try_from(array) == parse_list(array, "sadd", SADD, "members")
Sismember_try_from(array) == parse_fixed(array, "sismember", SISMEMBER, <<"key", "member">>)

\* TryFrom<RespArray> for Command: the parser is chosen by the first element.
Command_try_from_array(array) ==
    IF array.val = None THEN Failed("InvalidCommand")
    ELSE IF array.val[1] = << >> \/ array.val[1][1].kind # "BulkString"
    THEN Failed("InvalidCommand")
    ELSE LET name == as_ref(array.val[1][1].val) IN
         CASE name = GET -> Get_try_from(array)
           [] name = SET -> Set_try_from(array)
           [] name = HGET -> HGet_try_from(array)
           [] name = HSET -> HSet_try_from(array)
           [] name = HMGET -> HMGet_try_from(array)
           [] name = HGETALL -> HGetAll_try_from(array)
           [] name = ECHO -> Echo_try_from(array)
           [] name = SADD -> Sadd_try_from(array)
           [] name = SISMEMBER -> Sismember_try_from(array)
           [] OTHER -> Parsed([name |-> "unrecognized"])

\* A variant that takes a frame that is no Array for an unknown command.
Command_try_from_lenient(frame) ==
    IF frame.kind = "Array" THEN Command_try_from_array(frame)
    ELSE Parsed([name |-> "unrecognized"])

\* TryFrom<RespFrame> for Command.
Command_try_from(frame) ==
    IF frame.kind = "Array" THEN Command_try_from_array(frame)
    ELSE Failed("InvalidCommand")

(***************************************************************************)
(* The commands one client sends, one after the other, to one store.       *)
(***************************************************************************)
Keys == {<<"h", "e", "l", "l", "o">>, <<"k">>}
Fields == {<<"f">>, <<"f", "1">>}
Members == {<<"a">>, <<"b">>}
Values == {BulkString(Some(<<"v">>)), BulkString(Some(<<"w">>))}

\* The sequences of at most n elements of S, and the orderings of S.
RECURSIVE SeqsUpTo(_, _), Orders(_), SumOver(_, _)
SeqsUpTo(S, n) ==
    IF n = 0 THEN {<< >>}
    ELSE SeqsUpTo(S, n - 1) \cup {Append(q, x) : q \in SeqsUpTo(S, n - 1), x \in S}

Orders(S) ==
    IF S = {} THEN {<< >>}
    ELSE UNION {{<<x>> \o q : q \in Orders(S \ {x})} : x \in S}

SumOver(m, S) ==
    IF S = {} THEN 0
    ELSE LET x == CHOOSE y \in S : TRUE IN m[x] + SumOver(m, S \ {x})

Backend == [map |-> map, hmap |-> hmap, set |-> set]

\* The entries a backend holds: what MaxEntries bounds.
Entries(B) ==
    Cardinality(DOMAIN B.map)
    + SumOver([k \in DOMAIN B.hmap |-> Cardinality(DOMAIN B.hmap[k])], DOMAIN B.hmap)
    + SumOver([k \in DOMAIN B.set |-> IF B.set[k] = {} THEN 1 ELSE Cardinality(B.set[k])],
              DOMAIN B.set)

\* The command cmd' is executed; `order` is the iteration order of the hash
\* it reads.
Execute(order) ==
    \E r \in {Command_execute(Backend, cmd', order)} :
        /\ Entries(r.backend) <= MaxEntries
        /\ before' = Backend
        /\ map' = r.backend.map
        /\ hmap' = r.backend.hmap
        /\ set' = r.backend.set
        /\ reply' = r.reply
        /\ lastSet' = IF cmd'.name = "set"
                      THEN Insert(lastSet, cmd'.key, cmd'.value)
                      ELSE lastSet
        /\ lastHSet' = IF cmd'.name = "hset"
                       THEN Insert(lastHSet, <<cmd'.key, cmd'.field>>, cmd'.value)
                       ELSE lastHSet
        /\ sadded' = IF cmd'.name = "sadd"
                     THEN sadded \cup {<<cmd'.key, cmd'.members[i]>> : i \in 1..Len(cmd'.members)}
                     ELSE sadded

Run(order) == Execute(order) /\ UNCHANGED <<codecVars, parseVars, concVars>>

FieldLists == SeqsUpTo(Fields, MaxArgs)
MemberLists == SeqsUpTo(Members, MaxArgs)

\* The commands below are constructed in place, as the tests of src/cmd do.
ExecGet ==
    \E k \in Keys :
        /\ cmd' = [name |-> "get", key |-> k]
        /\ req' = << >>
        /\ Run(<< >>)

ExecSet ==
    \E k \in Keys, v \in Values :
        /\ cmd' = [name |-> "set", key |-> k, value |-> v]
        /\ req' = << >>
        /\ Run(<< >>)

ExecHGet ==
    \E k \in Keys, f \in Fields :
        /\ cmd' = [name |-> "hget", key |-> k, field |-> f]
        /\ req' = << >>
        /\ Run(<< >>)

ExecHSet ==
    \E k \in Keys, f \in Fields, v \in Values :
        /\ cmd' = [name |-> "hset", key |-> k, field |-> f, value |-> v]
        /\ req' = << >>
        /\ Run(<< >>)

ExecHMGet ==
    \E k \in Keys, fs \in FieldLists :
        /\ cmd' = [name |-> "hmget", key |-> k, fields |-> fs]
        /\ req' = << >>
        /\ Run(<< >>)

ExecHGetAll ==
    \E k \in Keys, sort \in BOOLEAN :
        /\ cmd' = [name |-> "hgetall", key |-> k, sort |-> sort]
        /\ req' = << >>
        /\ \E order \in Orders(IF k \in DOMAIN hmap THEN DOMAIN hmap[k] ELSE {}) :
              Run(order)

ExecSadd ==
    \E k \in Keys, ms \in MemberLists :
        /\ cmd' = [name |-> "sadd", key |-> k, members |-> ms]
        /\ req' = << >>
        /\ Run(<< >>)

ExecSismember ==
    \E k \in Keys, m \in Members :
        /\ cmd' = [name |-> "sismember", key |-> k, member |-> m]
        /\ req' = << >>
        /\ Run(<< >>)

ExecEcho ==
    \E m \in Members :
        /\ cmd' = [name |-> "echo", message |-> m]
        /\ req' = << >>
        /\ Run(<< >>)

ExecUnrecognized ==
    /\ cmd' = [name |-> "unrecognized"]
    /\ req' = << >>
    /\ Run(<< >>)

\* The requests a client writes: an Array of BulkStrings, the name first.
Bulk(bytes) == BulkString(Some(bytes))
Request(words) == RespArray(Some([i \in 1..Len(words) |-> Bulk(words[i])]))
Hello == <<"h", "e", "l", "l", "o">>
PING == <<"p", "i", "n", "g">>
Requests ==
    {Request(<<GET, Hello>>), Request(<<GET>>),
     Request(<<HGET, Hello, <<"f">>>>), Request(<<HMGET, Hello, <<"f">>, <<"f", "1">>>>),
     Request(<<HGETALL, Hello>>), Request(<<SADD, Hello, <<"a">>, <<"b">>>>),
     Request(<<SISMEMBER, Hello, <<"a">>>>), Request(<<ECHO, <<"a">>>>),
     Request(<<PING>>)}
    \cup {Request(<<SET, Hello, v.val[1]>>) : v \in Values}
    \cup {Request(<<HSET, Hello, <<"f">>, v.val[1]>>) : v \in Values}

\* What becomes of the bytes of one request: RespArray::decode, try_into.
Command_from_bytes(bytes) ==
    LET frame == RespArray_decode(bytes) IN
    IF frame.tag # "Ok" THEN Failed(frame.tag)
    ELSE Command_try_from(frame.val[1])

\* Each request as the bytes the client writes, with what they parse to.
Arrivals ==
    {[bytes |-> RespFrame_encode(request),
      parsed |-> Command_from_bytes(RespFrame_encode(request))] : request \in Requests}

\* A request arrives as bytes, is decoded and parsed, and the command is
\* executed; one that does not parse leaves the store alone.
Serve ==
    \E arrival \in Arrivals :
        /\ req' = arrival.bytes
        /\ IF arrival.parsed.tag = "Ok"
           THEN /\ cmd' = arrival.parsed.val[1]
                /\ \E order \in Orders(IF /\ cmd'.name = "hgetall"
                                          /\ cmd'.key \in DOMAIN hmap
                                       THEN DOMAIN hmap[cmd'.key] ELSE {}) :
                      Run(order)
           ELSE /\ cmd' = [name |-> "rejected", error |-> arrival.parsed.tag]
                /\ reply' = NoReply
                /\ before' = Backend
                /\ UNCHANGED <<map, hmap, set, lastSet, lastHSet, sadded, codecVars, parseVars, concVars>>

Next ==
    \/ ExecGet
    \/ ExecSet
    \/ ExecHGet
    \/ ExecHSet
    \/ ExecHMGet
    \/ ExecHGetAll
    \/ ExecSadd
    \/ ExecSismember
    \/ ExecEcho
    \/ ExecUnrecognized
    \/ Serve

Spec == Init /\ [][Next]_vars

(***************************************************************************)
(* Properties of the commands, under Spec.  `before` is the store the last *)
(* command found; lastSet and lastHSet hold the value of the most recent   *)
(* Set of each key and HSet of each key and field.                         *)
(***************************************************************************)
GetHelloBytes ==
    <<"*", "2", CR, LF, "$", "3", CR, LF, "g", "e", "t", CR, LF,
      "$", "5", CR, LF, "h", "e", "l", "l", "o", CR, LF>>
EmptyBackend == [map |-> EmptyMap, hmap |-> EmptyMap, set |-> EmptyMap]

\* C6: Get(k) replies the value of the most recent Set(k, v), and the
\* explicit Null frame, not a null BulkString, when k was never Set; the
\* bytes of 'get hello' sent to an empty store are answered with Null.
C6_LastWriteWins ==
    /\ cmd.name = "get" =>
          reply = IF cmd.key \in DOMAIN lastSet THEN lastSet[cmd.key] ELSE RespNull
    /\ (req = GetHelloBytes /\ before = EmptyBackend) =>
          (cmd = [name |-> "get", key |-> Hello] /\ reply = RespNull)

\* The bytes of 'get hello' are answered with the value the store holds for
\* 'hello', the one it was Set to last.
C6_Witness ==
    /\ req = GetHelloBytes
    /\ cmd.name = "get"
    /\ Hello \in DOMAIN lastSet
    /\ reply = lastSet[Hello]
    /\ reply = Bulk(<<"w">>)
    /\ before.map[Hello] = reply

\* C7: HSet(key, field, value) replies Integer 1 when the field was not in
\* the key's hash before (or the key had no hash) and Integer 0 when it was,
\* and the field holds the new value afterwards.
C7_HSetReply ==
    cmd.name = "hset" =>
        /\ reply = Integer(IF /\ cmd.key \in DOMAIN before.hmap
                              /\ cmd.field \in DOMAIN before.hmap[cmd.key]
                           THEN 0 ELSE 1)
        /\ Backend_hget(hmap, cmd.key, cmd.field) = Some(cmd.value)

\* C8: HGet(key, field) replies the value of the most recent HSet of that
\* key and field, and the explicit Null frame when the key has no hash or
\* the hash has no such field; an HSet changes what HGet finds for no other
\* field and no other key.
C8_HGet ==
    /\ cmd.name = "hget" =>
          /\ reply = IF <<cmd.key, cmd.field>> \in DOMAIN lastHSet
                     THEN lastHSet[<<cmd.key, cmd.field>>]
                     ELSE RespNull
          /\ (cmd.key \notin DOMAIN hmap \/ cmd.field \notin DOMAIN hmap[cmd.key])
                => reply = RespNull
    /\ cmd.name = "hset" =>
          \A k \in Keys, f \in Fields :
              <<k, f>> # <<cmd.key, cmd.field>> =>
                  Backend_hget(hmap, k, f) = Backend_hget(before.hmap, k, f)

\* HGet finds a field's value in a hash whose other field holds another.
C8_Witness ==
    /\ cmd.name = "hget"
    /\ <<cmd.key, cmd.field>> \in DOMAIN lastHSet
    /\ reply = lastHSet[<<cmd.key, cmd.field>>]
    /\ \E f \in Fields :
          /\ f # cmd.field
          /\ <<cmd.key, f>> \in DOMAIN lastHSet
          /\ lastHSet[<<cmd.key, f>>] # reply

\* C9: HMGet replies a present Array with one entry per requested field, in
\* the order requested: the field's stored value, or a null BulkString when
\* the field or the key is missing.
C9_HMGetPadding ==
    cmd.name = "hmget" =>
        /\ reply.kind = "Array"
        /\ reply.val # None
        /\ Len(reply.val[1]) = Len(cmd.fields)
        /\ \A i \in 1..Len(cmd.fields) :
              reply.val[1][i] =
                  IF cmd.key \in DOMAIN hmap /\ cmd.fields[i] \in DOMAIN hmap[cmd.key]
                  THEN hmap[cmd.key][cmd.fields[i]]
                  ELSE BulkString(None)

\* HMGet of a stored field and a missing one: the value, then the null
\* BulkString.
C9_Witness ==
    /\ cmd.name = "hmget"
    /\ cmd.fields = <<<<"f">>, <<"f", "1">>>>
    /\ reply = RespArray(Some(<<Bulk(<<"v">>), BulkString(None)>>))

\* The fields that were HSet on a key.
FieldsSet(key) == {p[2] : p \in {q \in DOMAIN lastHSet : q[1] = key}}

\* C10: HGetAll replies the null Array for a key that was never HSet; for
\* any other key a present Array of twice as many entries as fields were
\* set, each field once at an odd place (an even index counted from 0) and
\* its current value next.
C10_HGetAll ==
    cmd.name = "hgetall" =>
        IF FieldsSet(cmd.key) = {}
        THEN reply = RespArray(None)
        ELSE /\ reply.kind = "Array"
             /\ reply.val # None
             /\ Len(reply.val[1]) = 2 * Cardinality(FieldsSet(cmd.key))
             /\ \A f \in FieldsSet(cmd.key) :
                   \E i \in 1..Cardinality(FieldsSet(cmd.key)) :
                       /\ reply.val[1][2 * i - 1] = Bulk(f)
                       /\ reply.val[1][2 * i] = lastHSet[<<cmd.key, f>>]
                       /\ \A j \in 1..Cardinality(FieldsSet(cmd.key)) :
                             reply.val[1][2 * j - 1] = Bulk(f) => j = i

\* HGetAll lists two fields in the order the hash yields them, here not the
\* sorted one.
C10_Witness ==
    /\ cmd.name = "hgetall"
    /\ ~cmd.sort
    /\ reply.val # None
    /\ Len(reply.val[1]) = 4
    /\ reply.val[1][1] = Bulk(<<"f", "1">>)

\* C11: with the sort flag set, the field names of HGetAll's reply (every
\* second entry, from the first) are in strictly ascending order, and the
\* reply is the same whatever order the hash yields its fields in.
C11_SortedHGetAll ==
    (cmd.name = "hgetall" /\ cmd.sort /\ reply.val # None) =>
        /\ \A i \in 1..(Len(reply.val[1]) \div 2 - 1) :
              /\ reply.val[1][2 * i - 1].kind = "BulkString"
              /\ reply.val[1][2 * i + 1].kind = "BulkString"
              /\ str_lt(reply.val[1][2 * i - 1].val[1], reply.val[1][2 * i + 1].val[1])
        /\ \A order \in Orders(DOMAIN before.hmap[cmd.key]) :
              HGetAll_execute(before, cmd, order).reply = reply

\* A sorted HGetAll of a hash of two fields, one a prefix of the other.
C11_Witness ==
    /\ cmd.name = "hgetall"
    /\ cmd.sort
    /\ reply.val # None
    /\ Len(reply.val[1]) = 4
    /\ reply.val[1][1] = Bulk(<<"f">>)
    /\ reply.val[1][3] = Bulk(<<"f", "1">>)

(***************************************************************************)
(* The set commands, run with longer member lists next to the commands     *)
(* that write the other two maps.                                          *)
(***************************************************************************)
ExecSaddMany ==
    \E k \in Keys, ms \in SeqsUpTo(Members, MaxMembers) :
        /\ cmd' = [name |-> "sadd", key |-> k, members |-> ms]
        /\ req' = << >>
        /\ Run(<< >>)

NextSet ==
    \/ ExecSaddMany
    \/ ExecSismember
    \/ ExecSet
    \/ ExecHSet

SpecSet == Init /\ [][NextSet]_vars

\* The members a command lists, and the set a store holds for a key.
Listed(members) == {members[i] : i \in 1..Len(members)}
SetOf(B, key) == IF key \in DOMAIN B.set THEN B.set[key] ELSE {}

\* C12: Sadd replies the number of distinct members it lists that were not
\* in the key's set before, and afterwards the set holds what it held and
\* every member listed.
C12_SaddCount ==
    cmd.name = "sadd" =>
        /\ reply = Integer(Cardinality(Listed(cmd.members) \ SetOf(before, cmd.key)))
        /\ cmd.key \in DOMAIN set
        /\ set[cmd.key] = SetOf(before, cmd.key) \cup Listed(cmd.members)

\* Sadd(s, [a, b, a]) on an empty store replies 2.
C12_Witness ==
    /\ cmd.name = "sadd"
    /\ cmd.members = <<<<"a">>, <<"b">>, <<"a">>>>
    /\ before = EmptyBackend
    /\ reply = Integer(2)

\* C13: Sismember(key, member) replies Integer 1 when some earlier Sadd on
\* that key listed that member, and Integer 0 otherwise, also when the key
\* has no set.
C13_Sismember ==
    cmd.name = "sismember" =>
        reply = Integer(IF <<cmd.key, cmd.member>> \in sadded THEN 1 ELSE 0)

\* Sismember replies 0 for a member that was added to the set of another
\* key only, while its own key has a set.
C13_Witness ==
    /\ cmd.name = "sismember"
    /\ reply = Integer(0)
    /\ cmd.key \in DOMAIN set
    /\ \E k \in Keys : <<k, cmd.member>> \in sadded

(***************************************************************************)
(* Parsing and executing one request frame of any shape, on a store that   *)
(* earlier commands have filled.                                           *)
(***************************************************************************)
to_ascii_uppercase(bytes) ==
    [i \in 1..Len(bytes) |->
        IF \E j \in 1..26 : LowerCase[j] = bytes[i]
        THEN UpperCase[CHOOSE j \in 1..26 : LowerCase[j] = bytes[i]]
        ELSE bytes[i]]

\* Get, and hSeT.
Capitalised(bytes) ==
    [i \in 1..Len(bytes) |-> IF i = 1 THEN to_ascii_uppercase(bytes)[i] ELSE bytes[i]]
MixedCase(bytes) ==
    [i \in 1..Len(bytes) |-> IF i % 2 = 0 THEN to_ascii_uppercase(bytes)[i] ELSE bytes[i]]

KnownNames == {GET, SET, HGET, HSET, HMGET, HGETALL, ECHO, SADD, SISMEMBER}
Spellings ==
    UNION {{n, to_ascii_uppercase(n), Capitalised(n), MixedCase(n)} : n \in KnownNames}

\* The largest number of arguments a command takes (hset).
LongestArity == 3

K == <<"k">>
ArgFrames ==
    {Bulk(K), BulkString(None), Integer(1), RespArray(Some(<< >>)), Bulk(<<NotUtf8>>)}
FirstElements ==
    {Bulk(n) : n \in Spellings \cup {PING}}
        \cup {BulkString(None), Integer(1), RespArray(Some(<< >>))}

\* Arrays of a first element and up to one argument more than any command
\* takes, the empty and the null Array, and frames that are no Array.
ParseRequests ==
    {RespArray(Some(<<first>> \o args)) :
        first \in FirstElements, args \in SeqsUpTo(ArgFrames, LongestArity + 1)}
    \cup {RespArray(None), RespArray(Some(<< >>)),
          Bulk(GET), Integer(1), RespNull, SimpleString(GET)}

\* The stores that up to MaxPreload earlier commands leave.
PreloadCommands ==
    {[name |-> "set", key |-> K, value |-> Bulk(K)],
     [name |-> "hset", key |-> K, field |-> K, value |-> Bulk(K)],
     [name |-> "sadd", key |-> K, members |-> <<K>>]}

RECURSIVE StoresAfter(_)
StoresAfter(n) ==
    IF n = 0 THEN {[map |-> EmptyMap, hmap |-> EmptyMap, set |-> EmptyMap]}
    ELSE StoresAfter(n - 1)
            \cup {Command_execute(B, c, << >>).backend :
                    B \in StoresAfter(n - 1), c \in PreloadCommands}

ParseStores == StoresAfter(MaxPreload)

InitParse ==
    /\ sent = << >>
    /\ due = << >>
    /\ junk = 0
    /\ wire = << >>
    /\ buf = << >>
    /\ pre = << >>
    /\ out = NoCall
    /\ \E B \in ParseStores :
          /\ map = B.map
          /\ hmap = B.hmap
          /\ set = B.set
          /\ before = B
          /\ lastSet = B.map
          /\ lastHSet = [p \in UNION {{<<k, f>> : f \in DOMAIN B.hmap[k]} : k \in DOMAIN B.hmap}
                            |-> B.hmap[p[1]][p[2]]]
          /\ sadded = UNION {{<<k, m>> : m \in B.set[k]} : k \in DOMAIN B.set}
    /\ req = << >>
    /\ cmd = NoCommand
    /\ reply = NoReply
    /\ input = NoFrame
    /\ parsed = NotParsed
    /\ threads = [t \in Threads |-> Idle]
    /\ shared = FALSE

\* One request frame is parsed (Command::try_from) and, if that gives a
\* command, the command is executed; an error or a panic leaves the store.
Handle ==
    /\ input = NoFrame
    /\ \E f \in ParseRequests :
          LET p == Command_try_from(f) IN
          /\ input' = f
          /\ parsed' = [tag |-> p.tag]
          /\ req' = << >>
          /\ IF p.tag = "Ok"
             THEN /\ cmd' = p.val[1]
                  /\ \E order \in Orders(IF /\ cmd'.name = "hgetall"
                                            /\ cmd'.key \in DOMAIN hmap
                                         THEN DOMAIN hmap[cmd'.key] ELSE {}) :
                        Execute(order)
             ELSE /\ cmd' = [name |-> "rejected", error |-> p.tag]
                  /\ reply' = NoReply
                  /\ before' = Backend
                  /\ UNCHANGED <<map, hmap, set, lastSet, lastHSet, sadded>>
    /\ UNCHANGED <<codecVars, concVars>>

NextParse == Handle

SpecParse == InitParse /\ [][NextParse]_vars

(***************************************************************************)
(* Properties of parsing, under SpecParse.  `input` is the frame that was  *)
(* parsed, `parsed` how that ended, `cmd` the command it gave.             *)
(***************************************************************************)
\* An Array with a BulkString in the first place, and the bytes of that.
IsRequest(f) ==
    /\ f.kind = "Array"
    /\ f.val # None
    /\ f.val[1] # << >>
    /\ f.val[1][1].kind = "BulkString"
NameOf(f) == as_ref(f.val[1][1].val)
ArgsOf(f) == Tail(f.val[1])

\* The request with its name spelled in lower case.
Lowered(f) == RespArray(Some(<<Bulk(to_ascii_lowercase(NameOf(f)))>> \o ArgsOf(f)))

CommandErrors == {"InvalidCommand", "InvalidArgument", "Utf8Error"}
Rejected == parsed.tag \in CommandErrors /\ cmd.name = "rejected" /\ Backend = before

\* C14: a request whose name is a known command's in any mix of upper and
\* lower case parses to what the same request with the name in lower case
\* parses to, and never to the unrecognized command.
C14_CaseInsensitive ==
    (IsRequest(input) /\ to_ascii_lowercase(NameOf(input)) \in KnownNames) =>
        /\ parsed.tag = Command_try_from(Lowered(input)).tag
        /\ parsed.tag = "Ok" => cmd = Command_try_from(Lowered(input)).val[1]
        /\ cmd.name # "unrecognized"

\* C15: a request whose first element is a BulkString that names no known
\* command parses to the unrecognized command, whatever follows the name;
\* the reply is the SimpleString OK and the store is as it was.
C15_Unrecognized ==
    (IsRequest(input) /\ to_ascii_lowercase(NameOf(input)) \notin KnownNames) =>
        /\ parsed.tag = "Ok"
        /\ cmd = [name |-> "unrecognized"]
        /\ reply = RESP_OK
        /\ Backend = before

\* 'ping' followed by four elements, none a present text, was answered OK
\* by a store that holds something.
C15_Witness ==
    /\ IsRequest(input)
    /\ NameOf(input) = PING
    /\ ArgsOf(input) = <<Integer(1), BulkString(None), RespArray(Some(<< >>)), Integer(1)>>
    /\ reply = RESP_OK
    /\ cmd.name = "unrecognized"
    /\ before.hmap # EmptyMap

\* The commands of a fixed number of arguments that C16 names.
FixedArity == [echo |-> 1, hgetall |-> 1, hget |-> 2, sismember |-> 2, hset |-> 3]
FixedName ==
    [echo |-> ECHO, hgetall |-> HGETALL, hget |-> HGET, sismember |-> SISMEMBER, hset |-> HSET]
ParserOf(c, f) ==
    CASE c = "echo" -> Echo_try_from(f)
      [] c = "hgetall" -> HGetAll_try_from(f)
      [] c = "hget" -> HGet_try_from(f)
      [] c = "sismember" -> Sismember_try_from(f)
      [] c = "hset" -> HSet_try_from(f)

\* C16: a request for echo, hgetall, hget, sismember or hset that has not
\* exactly 1 + arity elements is rejected with a command error and gives no
\* command; the command's own parser accepts no other length either,
\* however the name is spelled.
C16_ExactArity ==
    IsRequest(input) =>
        \A c \in DOMAIN FixedArity :
            /\ (NameOf(input) = FixedName[c] /\ Len(input.val[1]) # 1 + FixedArity[c])
                  => (Rejected /\ parsed.tag = "InvalidArgument")
            /\ (NameOf(input) = FixedName[c] /\ parsed.tag = "Ok")
                  => (cmd.name = c /\ Len(input.val[1]) = 1 + FixedArity[c])
            /\ ParserOf(c, input).tag = "Ok" => Len(input.val[1]) = 1 + FixedArity[c]

\* hset with four arguments, the first three as hset wants them, was
\* rejected.
C16_Witness ==
    /\ IsRequest(input)
    /\ NameOf(input) = HSET
    /\ ArgsOf(input) = <<Bulk(K), Bulk(K), Bulk(K), Bulk(K)>>
    /\ Rejected
    /\ parsed.tag = "InvalidArgument"

\* C17: 'hmget key' and 'sadd key' with nothing after the key are rejected
\* with a command error; no request gives an HMGet without fields or a Sadd
\* without members.
C17_AtLeastOne ==
    /\ (/\ IsRequest(input)
        /\ NameOf(input) \in {HMGET, SADD}
        /\ ArgsOf(input) = <<Bulk(K)>>) => Rejected
    /\ cmd.name = "hmget" => cmd.fields # << >>
    /\ cmd.name = "sadd" => cmd.members # << >>

\* C18: a frame that is no Array, the null Array, the empty Array and an
\* Array whose first element is no BulkString are each rejected with an
\* invalid-command error.
C18_MalformedShape ==
    (input # NoFrame /\ ~IsRequest(input)) =>
        (Rejected /\ parsed.tag = "InvalidCommand")

\* A frame that is no Array was rejected.
C18_Witness ==
    /\ input = Bulk(GET)
    /\ Rejected
    /\ parsed.tag = "InvalidCommand"

\* The places of a request that must hold a present BulkString: all
\* arguments, but the value of set and of hset.
TextPlaces(f) ==
    {i \in 1..Len(ArgsOf(f)) :
        ~(NameOf(f) = SET /\ i = 2) /\ ~(NameOf(f) = HSET /\ i = 3)}
IsText(x) == x.kind = "BulkString" /\ x.val # None

\* The errors that blame an argument: its kind or count, or its text, which
\* is not UTF-8.
ArgumentErrors == {"InvalidArgument", "Utf8Error"}

\* C19: parsing a request that names a known command ends with a command
\* or a command error, never with an abort; if a key, field, member or
\* message place holds anything but a present BulkString, it ends with an
\* argument error and the store is as it was.  Stated for the seven commands
\* whose parsers are in src/cmd.
C19_ParseTotal ==
    (IsRequest(input) /\ NameOf(input) \in KnownNames \ {GET, SET}) =>
        /\ parsed.tag \in {"Ok"} \cup CommandErrors
        /\ (\E i \in TextPlaces(input) : ~IsText(ArgsOf(input)[i]))
              => (Rejected /\ parsed.tag \in ArgumentErrors)

(***************************************************************************)
(* Backend::sadd run by several threads on one shared store.  A thread     *)
(* calls sadd, takes the entry of its key (DashMap::entry holds the write  *)
(* lock of the key's shard until the RefMut is dropped at the end of the   *)
(* function), inserts its members one by one, and returns its count.       *)
(***************************************************************************)

\* A variant of DashSet::insert that reports every member as new.
DashSet_insert_always_new(have, member) ==
    [members |-> have \cup {member}, fresh |-> TRUE]

\* DashSet::insert: one atomic step under the inner shard's lock; true iff
\* the member was not in the set.
DashSet_insert(have, member) ==
    [members |-> have \cup {member}, fresh |-> member \notin have]

\* The member lists of the concurrent calls: repeats and both orders.
SaddLists == {ms \in SeqsUpTo(Members, MaxArgs) : Len(ms) <= Cardinality(Members)}

\* The set maps the concurrent calls may find.
SaddStores == {EmptyMap, Insert(EmptyMap, K, {<<"a">>})}

InitSadd ==
    /\ sent = << >>
    /\ due = << >>
    /\ junk = 0
    /\ wire = << >>
    /\ buf = << >>
    /\ pre = << >>
    /\ out = NoCall
    /\ map = EmptyMap
    /\ hmap = EmptyMap
    /\ set \in SaddStores
    /\ before = [map |-> EmptyMap, hmap |-> EmptyMap, set |-> set]
    /\ req = << >>
    /\ cmd = NoCommand
    /\ reply = NoReply
    /\ lastSet = EmptyMap
    /\ lastHSet = EmptyMap
    /\ sadded = UNION {{<<k, m>> : m \in set[k]} : k \in DOMAIN set}
    /\ input = NoFrame
    /\ parsed = NotParsed
    /\ threads = [t \in Threads |-> Idle]
    /\ shared \in BOOLEAN

\* The guard a thread holds on a DashMap of the store: a Ref (read lock of
\* the key's shard) from get() or a RefMut (write lock) from entry(), kept
\* until it is dropped.
NoGuard == [map |-> "none", key |-> << >>, mode |-> "none"]

\* A variant in which the Ref that HGetAll takes is never dropped.
Guard_leaked(t) ==
    LET r == threads[t] IN
    IF r.pc = "insert" THEN [map |-> "set", key |-> r.key, mode |-> "write"]
    ELSE IF r.pc \in {"held", "iter"}
              \/ (r.pc = "done" /\ "cmd" \in DOMAIN r /\ r.cmd.name = "hgetall"
                     /\ r.ret.val # None)
    THEN [map |-> IF r.cmd.name = "sismember" THEN "set" ELSE "hmap",
          key |-> r.cmd.key,
          mode |-> IF r.cmd.name = "hset" THEN "write" ELSE "read"]
    ELSE NoGuard

Guard(t) ==
    LET r == threads[t] IN
    IF r.pc = "insert" THEN [map |-> "set", key |-> r.key, mode |-> "write"]
    ELSE IF r.pc \in {"held", "iter"}
    THEN [map |-> IF r.cmd.name = "sismember" THEN "set" ELSE "hmap",
          key |-> r.cmd.key,
          mode |-> IF r.cmd.name = "hset" THEN "write" ELSE "read"]
    ELSE NoGuard

\* Two keys of a DashMap are locked together when they lie in one shard.
SameShard(a, b) == a = b \/ shared

\* RwLock: a read lock waits for the writer, a write lock for everyone.
CanRead(t, m, key) ==
    \A u \in Threads \ {t} :
        ~(Guard(u).map = m /\ Guard(u).mode = "write" /\ SameShard(Guard(u).key, key))
CanWrite(t, m, key) ==
    \A u \in Threads \ {t} :
        ~(Guard(u).map = m /\ SameShard(Guard(u).key, key))

\* The thread holds the entry of the key: from entry() to the return.
HoldsEntry(t, key) == threads[t].pc = "insert" /\ threads[t].key = key

\* The threads are alike, so they are numbered in the order in which they
\* call: a thread calls once every thread before it has.
NextToCall(t) == threads[t].pc = "idle" /\ \A u \in Threads : u < t => threads[u].pc # "idle"

\* backend.sadd(key, members) is called: let mut count = 0.  The record
\* notes whether another thread held the key's entry at that moment.
SaddCall ==
    /\ \E t \in Threads, k \in Keys, ms \in SaddLists :
          /\ NextToCall(t)
          /\ threads' = [threads EXCEPT ![t] =
                [pc |-> "entry", key |-> k, listed |-> ms, members |-> ms,
                 count |-> 0, counted |-> {},
                 overlapped |-> \E u \in Threads : HoldsEntry(u, k)]]
    /\ UNCHANGED <<codecVars, storeVars, parseVars, shared>>

\* self.set.entry(key).or_default(): waits while another thread holds a
\* guard on the key's shard, then holds the entry; an absent key gets an
\* empty set.
SaddEntry ==
    /\ \E t \in Threads :
          /\ threads[t].pc = "entry"
          /\ CanWrite(t, "set", threads[t].key)
          /\ set' = OrDefault(set, threads[t].key, {})
          /\ threads' = [threads EXCEPT ![t].pc = "insert"]
    /\ UNCHANGED <<codecVars, parseVars, map, hmap, before, req, cmd, reply,
                   lastSet, lastHSet, sadded, shared>>

\* One turn of for_each: if set.insert(member) { count += 1 }.
SaddInsert ==
    /\ \E t \in Threads :
          /\ threads[t].pc = "insert"
          /\ threads[t].members # << >>
          /\ LET key == threads[t].key
                 member == Head(threads[t].members)
                 r == DashSet_insert(set[key], member)
             IN  /\ set' = Insert(set, key, r.members)
                 /\ sadded' = sadded \cup {<<key, member>>}
                 /\ threads' = [threads EXCEPT
                       ![t].members = Tail(threads[t].members),
                       ![t].count = IF r.fresh THEN @ + 1 ELSE @,
                       ![t].counted = IF r.fresh THEN @ \cup {member} ELSE @]
    /\ UNCHANGED <<codecVars, parseVars, map, hmap, before, req, cmd, reply,
                   lastSet, lastHSet, shared>>

\* count is returned and the entry is dropped.
SaddReturn ==
    /\ \E t \in Threads :
          /\ threads[t].pc = "insert"
          /\ threads[t].members = << >>
          /\ threads' = [threads EXCEPT ![t] =
                [pc |-> "done", key |-> threads[t].key,
                 listed |-> threads[t].listed, ret |-> threads[t].count,
                 counted |-> threads[t].counted,
                 overlapped |-> threads[t].overlapped]]
    /\ UNCHANGED <<codecVars, storeVars, parseVars, shared>>

NextSadd == SaddCall \/ SaddEntry \/ SaddInsert \/ SaddReturn
SpecSadd == InitSadd /\ [][NextSadd]_vars

\* The calls on a key that have the entry or have returned, the count each
\* has so far, and the members new to the key's set since the start.
CallsOn(key) == {t \in Threads : threads[t].pc \in {"insert", "done"} /\ threads[t].key = key}
CountOf(t) == IF threads[t].pc = "done" THEN threads[t].ret ELSE threads[t].count
NewlyPresent(key) == SetOf(Backend, key) \ SetOf(before, key)
Counts == [t \in Threads |-> IF threads[t].pc \in {"insert", "done"} THEN CountOf(t) ELSE 0]

\* C20: with Sadd calls running concurrently on a key, each member new to
\* the key's set was counted by exactly one call, every call's count is the
\* number of members it counted, and so the counts on the key add up to the
\* number of members newly present; when all calls have returned, the
\* members newly present are those listed that were absent at the start.
C20_SaddAtomic ==
    \A key \in Keys :
        /\ \A t \in CallsOn(key) :
              /\ CountOf(t) = Cardinality(threads[t].counted)
              /\ threads[t].counted \subseteq NewlyPresent(key)
        /\ \A m \in NewlyPresent(key) :
              Cardinality({t \in CallsOn(key) : m \in threads[t].counted}) = 1
        /\ SumOver(Counts, CallsOn(key)) = Cardinality(NewlyPresent(key))
        /\ (\A t \in Threads : threads[t].pc = "done") =>
              NewlyPresent(key) =
                 UNION {Listed(threads[t].listed) : t \in CallsOn(key)}
                    \ SetOf(before, key)

\* Two calls on one key whose member lists overlap ran at the same time
\* (the second was called while the first held the entry) and both
\* returned, the shared member counted by the first only.
C20_Witness ==
    \E t, u \in Threads, m \in Members :
        /\ t # u
        /\ threads[t].pc = "done" /\ threads[u].pc = "done"
        /\ threads[t].key = threads[u].key
        /\ m \in Listed(threads[t].listed) \cap Listed(threads[u].listed)
        /\ m \in threads[t].counted
        /\ threads[u].overlapped
        /\ threads[u].ret < Cardinality(Listed(threads[u].listed))

(***************************************************************************)
(* The three maps of the store next to each other.                         *)
(***************************************************************************)
\* C23: a Set on k changes only the scalar entry of k, an HSet on k only
\* the hash of k, a Sadd on k only the set of k; and after any sequence of
\* commands each map holds what the commands of its own namespace put
\* there: the scalar of k is the last value Set, the fields of k's hash the
\* last values HSet, the members of k's set those some Sadd listed.
C23_Namespaces ==
    /\ cmd.name = "set" =>
          /\ hmap = before.hmap /\ set = before.set
          /\ \A k \in Keys \ {cmd.key} : Lookup(map, k) = Lookup(before.map, k)
    /\ cmd.name = "hset" =>
          /\ map = before.map /\ set = before.set
          /\ \A k \in Keys \ {cmd.key} : Lookup(hmap, k) = Lookup(before.hmap, k)
    /\ cmd.name = "sadd" =>
          /\ map = before.map /\ hmap = before.hmap
          /\ \A k \in Keys \ {cmd.key} : Lookup(set, k) = Lookup(before.set, k)
    /\ \A k \in Keys :
          /\ Backend_get(map, k) = Lookup(lastSet, k)
          /\ \A f \in Fields : Backend_hget(hmap, k, f) = Lookup(lastHSet, <<k, f>>)
          /\ \A m \in Members : Backend_sismember(set, k, m) = 1 <=> <<k, m>> \in sadded

\* A Sadd on a key that holds a scalar: the key is now in two namespaces
\* and its scalar is the one Set last.
C23_Witness ==
    /\ cmd.name = "sadd"
    /\ cmd.key \in DOMAIN map
    /\ cmd.key \notin DOMAIN before.set
    /\ cmd.key \in DOMAIN set
    /\ map[cmd.key] = lastSet[cmd.key]

\* C27: Get, HGet, HMGet, HGetAll, Sismember and Echo leave all three maps
\* as they were, the key they ask for is not created, and Echo replies a
\* present BulkString that holds its message.
C27_ReadOnly ==
    /\ cmd.name \in {"get", "hget", "hmget", "hgetall", "sismember", "echo"} =>
          /\ Backend = before
          /\ DOMAIN map = DOMAIN before.map
          /\ DOMAIN hmap = DOMAIN before.hmap
          /\ DOMAIN set = DOMAIN before.set
    /\ cmd.name = "echo" => reply = BulkString(Some(cmd.message))

\* Sismember asked for a key that has no set, in a store that holds a set
\* under another key: the key has no set afterwards either.
C27_Witness ==
    /\ cmd.name = "sismember"
    /\ cmd.key \notin DOMAIN before.set
    /\ DOMAIN before.set # {}
    /\ cmd.key \notin DOMAIN set
    /\ reply = Integer(0)

(***************************************************************************)
(* Frames inside Arrays, and the probe next to the decode.                 *)
(***************************************************************************)
\* What the frame kind's own decode and probe return for a buffer.
DecodeOf(op, b) == IF op = "Array" THEN RespArray_decode(b) ELSE BulkString_decode(b)
ProbeOf(op, b) ==
    IF op = "Array" THEN RespArray_expect_length(b) ELSE BulkString_expect_length(b)

\* The frame decodes on its own: decode of its encoding returns it.
DecodesAlone(f) ==
    LET r == DecodeOf(f.kind, RespFrame_encode(f))
    IN  r.tag = "Ok" /\ r.val = Some(f) /\ r.buf = << >>

\* C24: an Array whose elements each decode on their own (present and null
\* BulkStrings, present and null Arrays) decodes to the Array of those
\* elements; and whenever a decode succeeds, the probe (expect_length) of
\* that frame kind on the same buffer returns the number of bytes the
\* decode consumed.
C24_UniformNesting ==
    /\ (junk = 0 /\ RightDecoder /\ out.op = "Array" /\ out.want[1].val # None
          /\ pre = RespFrame_encode(out.want[1])
          /\ \A i \in 1..Len(out.want[1].val[1]) : DecodesAlone(out.want[1].val[1][i]))
          => (out.tag = "Ok" /\ out.val = out.want)
    /\ out.tag = "Ok" =>
          LET probe == ProbeOf(out.op, pre)
          IN  probe.tag = "Ok" /\ probe.val[1] = Len(pre) - Len(buf)

(***************************************************************************)
(* BulkString decode on buffers whose payload is followed by any two       *)
(* bytes.                                                                  *)
(***************************************************************************)
\* The buffers: a length header, a payload of that length, two more bytes.
Terminated ==
    {<<"$">> \o format_usize(Len(p)) \o CRLF \o p \o <<x, y>> :
        p \in Payloads(MaxPayload), x \in PayloadBytes, y \in PayloadBytes}

InitBulk ==
    /\ sent = << >>
    /\ due = << >>
    /\ junk = 0
    /\ wire = << >>
    /\ buf \in Terminated
    /\ pre = << >>
    /\ out = NoCall
    /\ map = EmptyMap
    /\ hmap = EmptyMap
    /\ set = EmptyMap
    /\ before = [map |-> EmptyMap, hmap |-> EmptyMap, set |-> EmptyMap]
    /\ req = << >>
    /\ cmd = NoCommand
    /\ reply = NoReply
    /\ lastSet = EmptyMap
    /\ lastHSet = EmptyMap
    /\ sadded = {}
    /\ input = NoFrame
    /\ parsed = NotParsed
    /\ threads = [t \in Threads |-> Idle]
    /\ shared = FALSE

\* BulkString::decode is called on the buffer, once.
DecodeTerminated ==
    /\ out = NoCall
    /\ Decode("BulkString", BulkString_decode(buf))

NextBulk == DecodeTerminated
SpecBulk == InitBulk /\ [][NextBulk]_vars

\* The two bytes that follow the payload the header of `b` declares.
AfterPayload(b) ==
    LET p == parse_length(b, "$")
        from == p.val[1].end + CRLF_LEN + p.val[1].len
    IN  Slice(b, from, from + CRLF_LEN)

\* C25: BulkString decode returns a present value only when the declared
\* payload is followed by CR LF; a buffer with a valid header and enough
\* bytes whose payload is followed by two other bytes is malformed.
C25_Terminator ==
    (out.op = "BulkString" /\ parse_length(pre, "$").tag = "Ok"
       /\ Len(pre) >= parse_length(pre, "$").val[1].end + CRLF_LEN
                        + parse_length(pre, "$").val[1].len + CRLF_LEN) =>
        /\ (out.tag = "Ok" /\ out.val[1].val # None) => AfterPayload(pre) = CRLF
        /\ AfterPayload(pre) # CRLF => out.tag = "Malformed"

(***************************************************************************)
(* The commands run by several threads on one shared store, one command    *)
(* per thread: first those on hashes alone, then one of each kind.  A step is what one thread does under one lock: a get() or  *)
(* entry() on a DashMap of the store takes the guard of the key's shard,   *)
(* which the thread keeps until the expression or function that holds it   *)
(* ends.  Sadd runs as above (SaddEntry, SaddInsert, SaddReturn).          *)
(***************************************************************************)
V == BulkString(Some(<<"v">>))
W == BulkString(Some(<<"w">>))
F == <<"f">>
F1 == <<"f", "1">>
A == <<"a">>

\* The commands on hashes the threads run.
ConcCalls ==
    {[name |-> "hget", key |-> k, field |-> F] : k \in Keys}
    \cup {[name |-> "hset", key |-> k, field |-> F, value |-> W] : k \in Keys}
    \cup {[name |-> "hset", key |-> K, field |-> F, value |-> V],
          [name |-> "hset", key |-> K, field |-> F1, value |-> W]}
    \cup {[name |-> "hmget", key |-> K, fields |-> <<F, F1>>],
          [name |-> "hmget", key |-> K, fields |-> <<F, F>>],
          [name |-> "hmget", key |-> Hello, fields |-> << >>]}
    \cup {[name |-> "hgetall", key |-> k, sort |-> TRUE] : k \in Keys}

\* The stores the threads find: an empty one, and one in which a key holds
\* a scalar, a hash and a set.
ConcStores ==
    {EmptyBackend,
     [map |-> Insert(EmptyMap, K, V),
      hmap |-> Insert(EmptyMap, K, Insert(EmptyMap, F, V)),
      set |-> Insert(EmptyMap, K, {A})]}

InitConc ==
    /\ sent = << >>
    /\ due = << >>
    /\ junk = 0
    /\ wire = << >>
    /\ buf = << >>
    /\ pre = << >>
    /\ out = NoCall
    /\ \E B \in ConcStores :
          /\ map = B.map
          /\ hmap = B.hmap
          /\ set = B.set
          /\ before = B
          /\ lastSet = B.map
          /\ lastHSet = [p \in UNION {{<<k, f>> : f \in DOMAIN B.hmap[k]} : k \in DOMAIN B.hmap}
                            |-> B.hmap[p[1]][p[2]]]
          /\ sadded = UNION {{<<k, m>> : m \in B.set[k]} : k \in DOMAIN B.set}
    /\ req = << >>
    /\ cmd = NoCommand
    /\ reply = NoReply
    /\ input = NoFrame
    /\ parsed = NotParsed
    /\ threads = [t \in Threads |-> Idle]
    /\ shared \in BOOLEAN

\* The thread runs the command `name` and is at `pc` in it.
At_(t, name, pc) == threads[t].pc = pc /\ threads[t].cmd.name = name

\* The command's first lock can be taken at once.
Admitted(t, c) ==
    CASE c.name \in {"get", "set"} -> TRUE
      [] c.name = "hset" -> CanWrite(t, "hmap", c.key)
      [] c.name = "sadd" -> CanWrite(t, "set", c.key)
      [] c.name = "sismember" -> CanRead(t, "set", c.key)
      [] OTHER -> CanRead(t, "hmap", c.key)

\* The thread has replied.
Finish(r, ret) ==
    [pc |-> "done", cmd |-> r.cmd, ret |-> ret, snaps |-> r.snaps, blocked |-> r.blocked]

\* The hash map `h` came to be while these HMGets were running (ghost).
Observed(ths, h) ==
    [u \in Threads |->
        IF ths[u].pc \in {"called", "held"} /\ ths[u].cmd.name = "hmget"
        THEN [ths[u] EXCEPT !.snaps = @ \cup {h}]
        ELSE ths[u]]

\* cmd.execute(&backend) is called by a thread.  The record notes whether
\* the command's first lock was held by another thread at that moment, and
\* for an HMGet the hash map as it stands.
Invoke(t, c) ==
    /\ NextToCall(t)
    /\ threads' = [threads EXCEPT ![t] =
          IF c.name = "sadd"
          THEN [pc |-> "entry", key |-> c.key, listed |-> c.members,
                members |-> c.members, count |-> 0, counted |-> {},
                overlapped |-> \E u \in Threads : HoldsEntry(u, c.key)]
          ELSE [pc |-> "called", cmd |-> c, i |-> 1, acc |-> << >>,
                snaps |-> IF c.name = "hmget" THEN {hmap} ELSE {},
                blocked |-> ~Admitted(t, c)]]

Call ==
    /\ \E t \in Threads, c \in ConcCalls : Invoke(t, c)
    /\ UNCHANGED <<codecVars, storeVars, parseVars, shared>>

\* Backend::get: self.map.get(key).map(|v| v.value().clone()).
MapGet ==
    /\ \E t \in Threads :
          /\ At_(t, "get", "called")
          /\ CanRead(t, "map", threads[t].cmd.key)
          /\ threads' = [threads EXCEPT ![t] =
                Finish(threads[t], Get_execute(Backend, threads[t].cmd).reply)]
    /\ UNCHANGED <<codecVars, storeVars, parseVars, shared>>

\* Backend::set: self.map.insert(key, value).
MapInsert ==
    /\ \E t \in Threads :
          /\ At_(t, "set", "called")
          /\ CanWrite(t, "map", threads[t].cmd.key)
          /\ LET r == Set_execute(Backend, threads[t].cmd) IN
             /\ map' = r.backend.map
             /\ lastSet' = Insert(lastSet, threads[t].cmd.key, threads[t].cmd.value)
             /\ threads' = [threads EXCEPT ![t] = Finish(threads[t], r.reply)]
    /\ UNCHANGED <<codecVars, parseVars, hmap, set, before, req, cmd, reply,
                   lastHSet, sadded, shared>>

\* Backend::hget: self.hmap.get(key); a missing key ends the call.
HGetRef ==
    /\ \E t \in Threads :
          /\ At_(t, "hget", "called")
          /\ CanRead(t, "hmap", threads[t].cmd.key)
          /\ threads' = [threads EXCEPT ![t] =
                IF threads[t].cmd.key \in DOMAIN hmap
                THEN [threads[t] EXCEPT !.pc = "held"]
                ELSE Finish(threads[t], RespNull)]
    /\ UNCHANGED <<codecVars, storeVars, parseVars, shared>>

\* .and_then(|v| v.get(field).map(|v| v.value().clone())); the Ref is dropped.
HGetValue ==
    /\ \E t \in Threads :
          /\ At_(t, "hget", "held")
          /\ threads' = [threads EXCEPT ![t] =
                Finish(threads[t], HGet_execute(Backend, threads[t].cmd).reply)]
    /\ UNCHANGED <<codecVars, storeVars, parseVars, shared>>

\* Backend::hset: let hmap = self.hmap.entry(key).or_default().
HSetEntry ==
    /\ \E t \in Threads :
          /\ At_(t, "hset", "called")
          /\ CanWrite(t, "hmap", threads[t].cmd.key)
          /\ hmap' = OrDefault(hmap, threads[t].cmd.key, EmptyMap)
          /\ threads' = Observed([threads EXCEPT ![t].pc = "held"], hmap')
    /\ UNCHANGED <<codecVars, parseVars, map, set, before, req, cmd, reply,
                   lastSet, lastHSet, sadded, shared>>

\* hmap.insert(field, value) takes the write lock of the hash's own shard,
\* which waits for a thread that iterates the hash; the RefMut is dropped.
HSetInsert ==
    /\ \E t \in Threads :
          /\ At_(t, "hset", "held")
          /\ \A u \in Threads \ {t} :
                ~(threads[u].pc = "iter" /\ threads[u].cmd.key = threads[t].cmd.key)
          /\ LET c == threads[t].cmd
                 r == HSet_execute(Backend, c)
             IN  /\ hmap' = r.backend.hmap
                 /\ lastHSet' = Insert(lastHSet, <<c.key, c.field>>, c.value)
                 /\ threads' = Observed([threads EXCEPT ![t] = Finish(threads[t], r.reply)],
                                        hmap')
    /\ UNCHANGED <<codecVars, parseVars, map, set, before, req, cmd, reply,
                   lastSet, sadded, shared>>

\* Backend::hmget, one turn of `for field in fields`: self.hmap.get(key);
\* for a missing key None is pushed.
HMGetRef ==
    /\ \E t \in Threads :
          /\ At_(t, "hmget", "called")
          /\ threads[t].i <= Len(threads[t].cmd.fields)
          /\ CanRead(t, "hmap", threads[t].cmd.key)
          /\ threads' = [threads EXCEPT ![t] =
                IF threads[t].cmd.key \in DOMAIN hmap
                THEN [threads[t] EXCEPT !.pc = "held"]
                ELSE [threads[t] EXCEPT !.i = @ + 1, !.acc = Append(@, None)]]
    /\ UNCHANGED <<codecVars, storeVars, parseVars, shared>>

\* hashmap.get(field) is pushed; the Ref is dropped at the end of the turn.
HMGetValue ==
    /\ \E t \in Threads :
          /\ At_(t, "hmget", "held")
          /\ LET c == threads[t].cmd
                 v == Backend_hget(hmap, c.key, c.fields[threads[t].i])
             IN  threads' = [threads EXCEPT ![t] =
                    [threads[t] EXCEPT !.pc = "called", !.i = @ + 1, !.acc = Append(@, v)]]
    /\ UNCHANGED <<codecVars, storeVars, parseVars, shared>>

\* resp is returned and HMGet::execute pads it into the reply.
HMGetReturn ==
    /\ \E t \in Threads :
          /\ At_(t, "hmget", "called")
          /\ threads[t].i > Len(threads[t].cmd.fields)
          /\ LET data == threads[t].acc
                 ret == [i \in 1..Len(data) |->
                            IF data[i] = None THEN BulkString(None) ELSE data[i][1]]
             IN  threads' = [threads EXCEPT ![t] =
                    Finish(threads[t], RespArray(Some(ret)))]
    /\ UNCHANGED <<codecVars, storeVars, parseVars, shared>>

\* HGetAll::execute: let hmap = backend.hmap.get(&self.key); None is
\* answered at once.
HGetAllRef ==
    /\ \E t \in Threads :
          /\ At_(t, "hgetall", "called")
          /\ CanRead(t, "hmap", threads[t].cmd.key)
          /\ threads' = [threads EXCEPT ![t] =
                IF threads[t].cmd.key \in DOMAIN hmap
                THEN [threads[t] EXCEPT !.pc = "held"]
                ELSE Finish(threads[t], HGetAll_execute(Backend, threads[t].cmd, << >>).reply)]
    /\ UNCHANGED <<codecVars, storeVars, parseVars, shared>>

\* for v in hmap.iter(): the iterator holds the read lock of the hash's own
\* shard and yields the fields in an order of its own.
HGetAllIter ==
    /\ \E t \in Threads :
          /\ At_(t, "hgetall", "held")
          /\ \E order \in Orders(DOMAIN hmap[threads[t].cmd.key]) :
                threads' = [threads EXCEPT ![t] =
                    [threads[t] EXCEPT !.pc = "iter", !.acc = order]]
    /\ UNCHANGED <<codecVars, storeVars, parseVars, shared>>

\* The data is sorted and flattened into the reply; the Ref is dropped.
HGetAllReturn ==
    /\ \E t \in Threads :
          /\ At_(t, "hgetall", "iter")
          /\ threads' = [threads EXCEPT ![t] =
                Finish([threads[t] EXCEPT !.acc = << >>],
                       HGetAll_execute(Backend, threads[t].cmd, threads[t].acc).reply)]
    /\ UNCHANGED <<codecVars, storeVars, parseVars, shared>>

\* Backend::sismember: self.set.get(key); a missing key is answered 0.
SismemberRef ==
    /\ \E t \in Threads :
          /\ At_(t, "sismember", "called")
          /\ CanRead(t, "set", threads[t].cmd.key)
          /\ threads' = [threads EXCEPT ![t] =
                IF threads[t].cmd.key \in DOMAIN set
                THEN [threads[t] EXCEPT !.pc = "held"]
                ELSE Finish(threads[t], Integer(0))]
    /\ UNCHANGED <<codecVars, storeVars, parseVars, shared>>

\* .map_or(false, |set| set.contains(member)); the Ref is dropped.
SismemberContains ==
    /\ \E t \in Threads :
          /\ At_(t, "sismember", "held")
          /\ threads' = [threads EXCEPT ![t] =
                Finish(threads[t], Sismember_execute(Backend, threads[t].cmd).reply)]
    /\ UNCHANGED <<codecVars, storeVars, parseVars, shared>>

\* What the threads do once their commands are called: on hashes, and on
\* all three maps.
StepHash ==
    \/ HGetRef
    \/ HGetValue
    \/ HSetEntry
    \/ HSetInsert
    \/ HMGetRef
    \/ HMGetValue
    \/ HMGetReturn
    \/ HGetAllRef
    \/ HGetAllIter
    \/ HGetAllReturn

StepConc ==
    \/ StepHash
    \/ MapGet
    \/ MapInsert
    \/ SaddEntry
    \/ SaddInsert
    \/ SaddReturn
    \/ SismemberRef
    \/ SismemberContains

NextConc == Call \/ StepHash
SpecConc == InitConc /\ [][NextConc]_vars

(***************************************************************************)
(* The same threads and steps with one command of each kind, on a store    *)
(* that holds a scalar, a hash and a set, and with a scheduler that lets   *)
(* some thread that can take a step take one sooner or later.              *)
(***************************************************************************)
LiveCalls ==
    {[name |-> "get", key |-> K],
     [name |-> "set", key |-> K, value |-> W],
     [name |-> "hget", key |-> K, field |-> F],
     [name |-> "hset", key |-> K, field |-> F, value |-> W],
     [name |-> "hset", key |-> Hello, field |-> F, value |-> W],
     [name |-> "hmget", key |-> K, fields |-> <<F, F1>>],
     [name |-> "hgetall", key |-> K, sort |-> TRUE],
     [name |-> "sadd", key |-> K, members |-> <<A>>],
     [name |-> "sismember", key |-> K, member |-> A]}

InitLive == InitConc /\ map # EmptyMap

Start ==
    /\ \E t \in Threads, c \in LiveCalls : Invoke(t, c)
    /\ UNCHANGED <<codecVars, storeVars, parseVars, shared>>

NextLive == Start \/ StepConc
SpecLive == InitLive /\ [][NextLive]_vars /\ WF_vars(StepConc)

\* The threads that run an HSet of the field of the key, and those of them
\* that have replied.
HSetsOn(k, f) ==
    {t \in Threads : /\ "cmd" \in DOMAIN threads[t]
                     /\ threads[t].cmd.name = "hset"
                     /\ threads[t].cmd.key = k /\ threads[t].cmd.field = f}
HSetsDone(k, f) == {t \in HSetsOn(k, f) : threads[t].pc = "done"}

\* C21: with HSets running concurrently, a field that some HSet has written
\* (the HSet has replied) is in the key's hash and holds the value of one
\* of the HSets of that field; a field no HSet has written yet is as it
\* was at the start, also when the hash was created meanwhile.
C21_NoLostHSet ==
    \A k \in Keys, f \in Fields :
        /\ HSetsDone(k, f) # {} =>
              Backend_hget(hmap, k, f) \in {Some(threads[t].cmd.value) : t \in HSetsOn(k, f)}
        /\ (\A t \in HSetsOn(k, f) : threads[t].pc = "called") =>
              Backend_hget(hmap, k, f) = Backend_hget(before.hmap, k, f)

\* Two HSets of two fields of a key that had no hash ran at the same time
\* (the second was called while the first held the entry); both have
\* replied and both fields are in the hash.
C21_Witness ==
    \E t, u \in Threads :
        /\ HSetsDone(K, F) = {t} /\ HSetsDone(K, F1) = {u}
        /\ K \notin DOMAIN before.hmap
        /\ threads[t].blocked \/ threads[u].blocked
        /\ DOMAIN hmap[K] = {F, F1}

\* C22: the Array an HMGet returns is the padded field values of the hash
\* as it stood at one instant between the HMGet's call and its reply.
C22_HMGetSnapshot ==
    \A t \in Threads :
        ("cmd" \in DOMAIN threads[t] /\ threads[t].pc = "done"
            /\ threads[t].cmd.name = "hmget") =>
            \E h \in threads[t].snaps :
                threads[t].ret = HMGet_execute([map |-> map, hmap |-> h, set |-> set],
                                               threads[t].cmd).reply

\* C26: every command that a thread has called is replied to in the end.
C26_NoBlocking ==
    \A t \in Threads : (threads[t].pc # "idle") ~> (threads[t].pc = "done")

\* All commands have replied; one of them, an HGetAll, was called while an
\* HSet on the other key held the entry of the shard both keys lie in.
C26_Witness ==
    /\ shared
    /\ \A t \in Threads : threads[t].pc = "done"
    /\ \E t, u \in Threads :
          /\ "cmd" \in DOMAIN threads[t] /\ "cmd" \in DOMAIN threads[u]
          /\ threads[t].cmd.name = "hgetall" /\ threads[t].blocked
          /\ threads[u].cmd.name = "hset"
          /\ threads[u].cmd.key # threads[t].cmd.key

====
